---- MODULE Spec2Model ----
(***************************************************************************)
(* Model of the glazing engine of balkongkonfigurator-web                  *)
(* (src/src/engine/geometry/offsetChain.ts, constants in                   *)
(* src/unnamed/part_011) and of its configuration store                    *)
(* (src/src/store/useConfigStore.ts).                                      *)
(*                                                                         *)
(* Lengths are integers in hundredths of a millimetre (1 mm = 100), so     *)
(* that 46.5 mm, 72.89 mm and the interpolation tables are exact.  The     *)
(* code divides in floating point; the model keeps a quotient as the pair  *)
(* (numerator, denominator) and compares and rounds it exactly.  The one   *)
(* rounded value is the offset of a 135 degree glazing corner (33.12 for   *)
(* 33.1209...).  On the inputs drawn below (edge lengths on a 0.5 mm grid, *)
(* corner angles 0, 90, -90, 135) no comparison of the code falls on a     *)
(* value where double rounding would decide it differently.                *)
(*                                                                         *)
(* The store is modelled on guides whose points lie on one axis, and       *)
(* computeEdgeData on guides with axis-parallel segments: there segment    *)
(* lengths and corner angles (0, 90, 180) are exact.                       *)
(***************************************************************************)
EXTENDS Integers, Sequences, FiniteSets, TLC

VARIABLES pc, edgeLength, startAngle, endAngle,
          startConnectedToWall, endConnectedToWall,
          panelsBefore, panels,
          frameHeight, fittings,
          profileOffsetLeft, profileOffsetRight, cutLengths,
          guidePoints, previewPoint, isDrawing, freeGlassWidth, activeMode,
          selectedSegmentIndex, edgeConfigs, steps,
          segIndex, edgeData,
          leftOffsetResult, rightOffsetResult,
          points, offsetDistance, offsetPoints,
          cache, loading, promises, loaderStarts, returned, lastCall

\* input and result of the panel functions
genVars == <<edgeLength, startAngle, endAngle,
             startConnectedToWall, endConnectedToWall, panelsBefore, panels>>

\* input and result of calculatePanelFittings
fitVars == <<frameHeight, fittings>>

\* input and result of calculateCutLengths
cutVars == <<profileOffsetLeft, profileOffsetRight, cutLengths>>

\* state of the config store (src/src/store/useConfigStore.ts) and the number
\* of store actions taken
storeVars == <<guidePoints, previewPoint, isDrawing, freeGlassWidth, activeMode,
               selectedSegmentIndex, edgeConfigs, steps>>

\* input and result of computeEdgeData
edgeVars == <<segIndex, edgeData>>

\* results of calculateOffset for the two ends of an edge
offsetVars == <<leftOffsetResult, rightOffsetResult>>

\* input and result of calculateOffsetPoints, in whole millimetres
pointVars == <<points, offsetDistance, offsetPoints>>

\* the PLY cache (src/src/utils/plyCache.ts): the two maps of the module, the
\* promises created so far, the number of loaders started per file, what
\* each viewer's last loadPly call returned, and the last call made
plyVars == <<cache, loading, promises, loaderStarts, returned, lastCall>>

\* the variables of the remaining functions
restVars == <<offsetVars, pointVars, plyVars>>

vars == <<pc, genVars, fitVars, cutVars, storeVars, edgeVars, restVars>>

----------------------------------------------------------------------------
(* Units and number helpers                                                *)

Mm(n) == n * 100

Max(a, b) == IF a >= b THEN a ELSE b

Abs(a) == IF a < 0 THEN -a ELSE a

\* Math.ceil(a / b) for b > 0
Ceil(a, b) == -((-a) \div b)

\* Math.round(a / b) in whole millimetres, for b > 0 and a in hundredths:
\* floor(x + 0.5), halves go up, also for negative x
RoundMm(a, b) == Mm((2 * a + Mm(1) * b) \div (2 * Mm(1) * b))

\* the JavaScript null where a lock type is expected
Null == "null"

\* null where a record (a point, a result) is expected
NullRecord == [isNull |-> TRUE]

\* null where a segment index is expected
NullIndex == -1

\* Math.round(x * 10) / 10
RoundTenth(x) == ((x + 5) \div 10) * 10

----------------------------------------------------------------------------
(* Constants of src/unnamed/part_011                                       *)

MAX_PANEL_WIDTH == Mm(700)
MIN_PANEL_WIDTH == Mm(430)
PANEL_STEP == Mm(30)
STANDARD_PANEL_SIZES ==
    <<Mm(430), Mm(460), Mm(490), Mm(520), Mm(550),
      Mm(580), Mm(610), Mm(640), Mm(670), Mm(700)>>
FREE_WIDTH_THRESHOLD == Mm(400)
COMBO_TOLERANCE == Mm(5)
MIDDLE_PANEL_OFFSET == Mm(2)
PASSRUTA_PANEL_OFFSET == Mm(6)
DEFAULT_OFFSET_ANGLE_ZERO == 4650
DEFAULT_OFFSET_WALL_90 == 9150
POSITIVE_ANGLE_FACTOR == 6789
NEGATIVE_ANGLE_FACTOR == 5711
OFFSET_ADDEND == Mm(5)
INTERPOLATION_ANGLES == <<145, 140, 135, 130, 125, 120, 115, 110, 105, 100, 95, 90>>
WALL_OFFSETS ==
    <<8365, 7839, 7521, 7320, 7226, 7217, 7280, 7408, 7594, 7838, 8139, 8500>>
GLAZING_OFFSETS ==
    <<4260, 2844, 2136, 1258, 458, 289, -1002, -1695, -2381, -3071, -3774, -4500>>

----------------------------------------------------------------------------
(* interpolateFromTable (src/src/store/useConfigStore.ts)                  *)

RECURSIVE InterpolateScan(_, _, _, _)
InterpolateScan(angle, angles, values, i) ==
    IF i > Len(angles) - 1 THEN values[Len(values)]
    ELSE IF angle <= angles[i] /\ angle >= angles[i + 1]
         THEN values[i]
              + ((angle - angles[i]) * (values[i + 1] - values[i]))
                \div (angles[i + 1] - angles[i])
         ELSE InterpolateScan(angle, angles, values, i + 1)

interpolateFromTable(angle, angles, values) ==
    IF angle >= angles[1] THEN values[1]
    ELSE IF angle <= angles[Len(angles)] THEN values[Len(values)]
    ELSE InterpolateScan(angle, angles, values, 1)

----------------------------------------------------------------------------
(* calculateOffset                                                         *)

\* Math.tan((PI / 180) * halfAngle) with halfAngle = (180 - angle) / 2, in
\* ten-thousandths, for the corner angles the model draws (tan 45, tan 135,
\* tan 22.5 and tan 0 degrees)
TanHalfE4(angle) ==
    CASE angle = 90 -> 10000
      [] angle = -90 -> -10000
      [] angle = 135 -> 4142
      [] angle = 180 -> 0

\* calculateOffset with the wall branch ahead of the angle test and open to
\* every angle up to 99 degrees
calculateOffsetWallFirst(angle, isConnectedToWall) ==
    IF isConnectedToWall /\ Abs(angle) <= 99
    THEN [offset |-> DEFAULT_OFFSET_WALL_90, profileOffset |-> -Mm(45)]
    ELSE IF angle = 0
    THEN [offset |-> DEFAULT_OFFSET_ANGLE_ZERO, profileOffset |-> 0]
    ELSE IF isConnectedToWall /\ Abs(angle) > 99 /\ Abs(angle) <= 157
    THEN LET glazingOffset ==
                 interpolateFromTable(Abs(angle), INTERPOLATION_ANGLES, GLAZING_OFFSETS)
         IN  [offset |-> 5050 + Mm(10) - glazingOffset - Mm(4),
              profileOffset |-> -Mm(10) + glazingOffset - Mm(4)]
    ELSE IF angle > 0
    THEN [offset |-> (TanHalfE4(angle) * POSITIVE_ANGLE_FACTOR) \div 10000
                     + OFFSET_ADDEND,
          profileOffset |-> 0]
    ELSE [offset |-> (TanHalfE4(angle) * NEGATIVE_ANGLE_FACTOR) \div 10000
                     + OFFSET_ADDEND,
          profileOffset |-> 0]

calculateOffset(angle, isConnectedToWall) ==
    IF angle = 0
    THEN [offset |-> DEFAULT_OFFSET_ANGLE_ZERO, profileOffset |-> 0]
    ELSE IF isConnectedToWall /\ Abs(angle) >= 88 /\ Abs(angle) <= 99
    THEN [offset |-> DEFAULT_OFFSET_WALL_90, profileOffset |-> -Mm(45)]
    ELSE IF isConnectedToWall /\ Abs(angle) > 99 /\ Abs(angle) <= 157
    THEN LET glazingOffset ==
                 interpolateFromTable(Abs(angle), INTERPOLATION_ANGLES, GLAZING_OFFSETS)
         IN  [offset |-> 5050 + Mm(10) - glazingOffset - Mm(4),
              profileOffset |-> -Mm(10) + glazingOffset - Mm(4)]
    ELSE IF angle > 0
    THEN [offset |-> (TanHalfE4(angle) * POSITIVE_ANGLE_FACTOR) \div 10000
                     + OFFSET_ADDEND,
          profileOffset |-> 0]
    ELSE [offset |-> (TanHalfE4(angle) * NEGATIVE_ANGLE_FACTOR) \div 10000
                     + OFFSET_ADDEND,
          profileOffset |-> 0]

----------------------------------------------------------------------------
(* autoAssignLocks                                                         *)

\* panels.findIndex(p => p.opening === '<'), 0 for "not found" (-1 in the code)
FirstLeft(ps) ==
    IF \E i \in 1..Len(ps) : ps[i].opening = "<"
    THEN CHOOSE i \in 1..Len(ps) :
            /\ ps[i].opening = "<"
            /\ \A j \in 1..(i - 1) : ps[j].opening # "<"
    ELSE 0

\* findLastIndex(panels, p => p.opening === '>'), 0 for "not found"
LastRight(ps) ==
    IF \E i \in 1..Len(ps) : ps[i].opening = ">"
    THEN CHOOSE i \in 1..Len(ps) :
            /\ ps[i].opening = ">"
            /\ \A j \in (i + 1)..Len(ps) : ps[j].opening # ">"
    ELSE 0

\* autoAssignLocks with the reset loop's test for '||' left out
autoAssignLocksResetAll(ps) ==
    LET reset == [i \in 1..Len(ps) |-> [ps[i] EXCEPT !.lock = "-"]]
        firstLeft == FirstLeft(reset)
        lastRight == LastRight(reset)
        afterLeft == IF firstLeft # 0 THEN [reset EXCEPT ![firstLeft].lock = "|"]
                     ELSE reset
    IN  IF lastRight # 0 THEN [afterLeft EXCEPT ![lastRight].lock = "|"]
        ELSE afterLeft

autoAssignLocks(ps) ==
    LET reset == [i \in 1..Len(ps) |->
                    IF ps[i].lock # "||" THEN [ps[i] EXCEPT !.lock = "-"] ELSE ps[i]]
        firstLeft == FirstLeft(reset)
        lastRight == LastRight(reset)
        afterLeft == IF firstLeft # 0 /\ reset[firstLeft].lock # "||"
                     THEN [reset EXCEPT ![firstLeft].lock = "|"]
                     ELSE reset
    IN  IF lastRight # 0 /\ afterLeft[lastRight].lock # "||"
        THEN [afterLeft EXCEPT ![lastRight].lock = "|"]
        ELSE afterLeft

----------------------------------------------------------------------------
(* buildPanels                                                             *)

\* buildPanels without the closing call of autoAssignLocks
buildPanelsNoLocks(total, largeSize, smallSize, numLarge, numSmall, leftOffset, rightOffset) ==
    [i \in 1..total |->
        [name |-> ToString(i),
         length |-> Max(MIN_PANEL_WIDTH,
                        IF (i - 1) >= numSmall THEN largeSize ELSE smallSize),
         opening |-> ">",
         lock |-> "-",
         offsetLeft |-> IF i = 1 THEN RoundTenth(leftOffset) ELSE MIDDLE_PANEL_OFFSET,
         offsetRight |-> IF i = total THEN RoundTenth(rightOffset)
                         ELSE MIDDLE_PANEL_OFFSET]]

\* buildPanels with isLarge = i < numLarge: the larger panels first
buildPanelsLargeFirst(total, largeSize, smallSize, numLarge, numSmall, leftOffset, rightOffset) ==
    autoAssignLocks(
        [i \in 1..total |->
            [name |-> ToString(i),
             length |-> Max(MIN_PANEL_WIDTH,
                            IF (i - 1) < numLarge THEN largeSize ELSE smallSize),
             opening |-> ">",
             lock |-> "-",
             offsetLeft |-> IF i = 1 THEN RoundTenth(leftOffset)
                            ELSE MIDDLE_PANEL_OFFSET,
             offsetRight |-> IF i = total THEN RoundTenth(rightOffset)
                             ELSE MIDDLE_PANEL_OFFSET]])

buildPanels(total, largeSize, smallSize, numLarge, numSmall, leftOffset, rightOffset) ==
    autoAssignLocks(
        [i \in 1..total |->
            LET isLarge == (i - 1) >= numSmall
                panelWidth == IF isLarge THEN largeSize ELSE smallSize
            IN  [name |-> ToString(i),
                 length |-> Max(MIN_PANEL_WIDTH, panelWidth),
                 opening |-> ">",
                 lock |-> "-",
                 offsetLeft |-> IF i = 1 THEN RoundTenth(leftOffset)
                                ELSE MIDDLE_PANEL_OFFSET,
                 offsetRight |-> IF i = total THEN RoundTenth(rightOffset)
                                 ELSE MIDDLE_PANEL_OFFSET]])

----------------------------------------------------------------------------
(* snapToStandardSize: width is the quotient num / den                     *)

RECURSIVE SnapScan(_, _, _, _)
SnapScan(num, den, i, best) ==
    IF i > Len(STANDARD_PANEL_SIZES) THEN best
    ELSE LET s == STANDARD_PANEL_SIZES[i]
         IN  IF Abs(num - s * den) < Abs(num - best * den)
             THEN SnapScan(num, den, i + 1, s)
             ELSE SnapScan(num, den, i + 1, best)

\* snapToStandardSize returning the raw rounded value below MIN_PANEL_WIDTH
snapToStandardSizeRaw(num, den) ==
    IF num < MIN_PANEL_WIDTH * den
    THEN RoundMm(num, den)
    ELSE SnapScan(num, den, 1, STANDARD_PANEL_SIZES[1])

snapToStandardSize(num, den) ==
    IF num < MIN_PANEL_WIDTH * den
    THEN Max(Mm(100), RoundMm(num, den))
    ELSE SnapScan(num, den, 1, STANDARD_PANEL_SIZES[1])

----------------------------------------------------------------------------
(* autoGeneratePanelsForEdge                                               *)

\* the panel count as Math.floor(availableLength / MAX_PANEL_WIDTH) + 1
NumPanelsFloor(availableLength) == (availableLength \div MAX_PANEL_WIDTH) + 1

\* Step 2: Math.max(1, Math.ceil(availableLength / MAX_PANEL_WIDTH))
NumPanels(availableLength) == Max(1, Ceil(availableLength, MAX_PANEL_WIDTH))

\* Steps 3-4: availableLength - (numPanels - 1) * MIDDLE_PANEL_OFFSET * 2
AvailableForGlass(availableLength) ==
    availableLength - (NumPanels(availableLength) - 1) * MIDDLE_PANEL_OFFSET * 2

\* step 8 taking the largest standard size <= avgLength, else MIN_PANEL_WIDTH
BaseSizeBelow(num, den) ==
    IF \E i \in 1..Len(STANDARD_PANEL_SIZES) : STANDARD_PANEL_SIZES[i] * den <= num
    THEN STANDARD_PANEL_SIZES[
            CHOOSE i \in 1..Len(STANDARD_PANEL_SIZES) :
                /\ STANDARD_PANEL_SIZES[i] * den <= num
                /\ \A j \in (i + 1)..Len(STANDARD_PANEL_SIZES) :
                      STANDARD_PANEL_SIZES[j] * den > num]
    ELSE MIN_PANEL_WIDTH

\* Step 8: STANDARD_PANEL_SIZES.find(s => s >= avgLength), else MAX_PANEL_WIDTH,
\* with avgLength = num / den
BaseSize(num, den) ==
    IF \E i \in 1..Len(STANDARD_PANEL_SIZES) : STANDARD_PANEL_SIZES[i] * den >= num
    THEN STANDARD_PANEL_SIZES[
            CHOOSE i \in 1..Len(STANDARD_PANEL_SIZES) :
                /\ STANDARD_PANEL_SIZES[i] * den >= num
                /\ \A j \in 1..(i - 1) : STANDARD_PANEL_SIZES[j] * den < num]
    ELSE MAX_PANEL_WIDTH

\* step 9 going two steps down
SmallerSizeTwoSteps(baseSize) == Max(MIN_PANEL_WIDTH, baseSize - 2 * PANEL_STEP)

\* Step 9
SmallerSize(baseSize) == Max(MIN_PANEL_WIDTH, baseSize - PANEL_STEP)

\* the test of step 10 read as "may exceed by up to COMBO_TOLERANCE"
ComboValidUpper(diff) == diff <= COMBO_TOLERANCE

\* the test of step 10 without the tolerance
ComboValidExact(diff) == diff >= 0

\* The test of step 10: valid = diff >= -COMBO_TOLERANCE
ComboValid(diff) == diff >= -COMBO_TOLERANCE

\* Step 10: the loop over nLarge = 0..numPanels; best.inf stands for
\* bestDiff = Infinity
RECURSIVE ComboScan(_, _, _, _, _, _)
ComboScan(nLarge, numPanels, baseSize, smallerSize, availableForGlass, best) ==
    IF nLarge > numPanels THEN best
    ELSE LET nSmall == numPanels - nLarge
             totalGlass == nLarge * baseSize + nSmall * smallerSize
             diff == totalGlass - availableForGlass
             valid == ComboValid(diff)
             absDiff == Abs(diff)
             closer == best.inf \/ absDiff < best.bestDiff
             next ==
                 IF valid /\ (~best.bestValid \/ absDiff < best.bestDiff)
                 THEN [bestLarge |-> nLarge, bestSmall |-> nSmall,
                       bestDiff |-> absDiff, inf |-> FALSE, bestValid |-> TRUE]
                 ELSE IF ~best.bestValid /\ closer
                 THEN [bestLarge |-> nLarge, bestSmall |-> nSmall,
                       bestDiff |-> absDiff, inf |-> FALSE, bestValid |-> FALSE]
                 ELSE best
         IN  ComboScan(nLarge + 1, numPanels, baseSize, smallerSize,
                       availableForGlass, next)

BestCombo(numPanels, baseSize, smallerSize, availableForGlass) ==
    ComboScan(0, numPanels, baseSize, smallerSize, availableForGlass,
              [bestLarge |-> numPanels, bestSmall |-> 0,
               bestDiff |-> 0, inf |-> TRUE, bestValid |-> FALSE])

\* step 1 without the clamp to 100 mm
DegeneratePanelUnclamped(availableLength, leftOffset, rightOffset) ==
    <<[name |-> "1",
       length |-> RoundMm(availableLength, 1),
       opening |-> ">",
       lock |-> "-",
       offsetLeft |-> RoundTenth(leftOffset),
       offsetRight |-> RoundTenth(rightOffset)]>>

\* step 1 returning no panel for a too-short edge
DegeneratePanelNone(availableLength, leftOffset, rightOffset) == <<>>

\* Step 1: the panel returned when availableLength < 50
DegeneratePanel(availableLength, leftOffset, rightOffset) ==
    <<[name |-> "1",
       length |-> Max(Mm(100), RoundMm(availableLength, 1)),
       opening |-> ">",
       lock |-> "-",
       offsetLeft |-> RoundTenth(leftOffset),
       offsetRight |-> RoundTenth(rightOffset)]>>

\* Step 6: the panel returned when numPanels = 1; avgLength = num / den
SnappedPanel(num, den, leftOffset, rightOffset) ==
    <<[name |-> "1",
       length |-> snapToStandardSize(num, den),
       opening |-> ">",
       lock |-> "-",
       offsetLeft |-> RoundTenth(leftOffset),
       offsetRight |-> RoundTenth(rightOffset)]>>

\* Step 7: the free-width list
FreeWidthPanels(numPanels, availableForGlass, leftOffset, rightOffset) ==
    buildPanels(numPanels, RoundMm(availableForGlass, numPanels),
                RoundMm(availableForGlass, numPanels), 0, numPanels,
                leftOffset, rightOffset)

autoGeneratePanelsForEdge(len, sAngle, eAngle, sWall, eWall) ==
    LET leftOffset == calculateOffset(sAngle, sWall).offset
        rightOffset == calculateOffset(eAngle, eWall).offset
        availableLength == len - leftOffset - rightOffset
        numPanels == NumPanels(availableLength)
        availableForGlass == AvailableForGlass(availableLength)
        baseSize == BaseSize(availableForGlass, numPanels)
        smallerSize == SmallerSize(baseSize)
        best == BestCombo(numPanels, baseSize, smallerSize, availableForGlass)
    IN  IF availableLength < Mm(50)
        THEN DegeneratePanel(availableLength, leftOffset, rightOffset)
        ELSE IF numPanels = 1
        THEN SnappedPanel(availableForGlass, numPanels, leftOffset, rightOffset)
        ELSE IF availableForGlass < FREE_WIDTH_THRESHOLD * numPanels
        THEN FreeWidthPanels(numPanels, availableForGlass, leftOffset, rightOffset)
        ELSE IF ~best.bestValid
        THEN FreeWidthPanels(numPanels, availableForGlass, leftOffset, rightOffset)
        ELSE buildPanels(numPanels, baseSize, smallerSize,
                         best.bestLarge, best.bestSmall, leftOffset, rightOffset)

----------------------------------------------------------------------------
(* calculatePanelFittings                                                  *)

\* the table without the row of 'Variabelt andlock'
LOCK_WIDTHS_NO_ANDLOCK(lock) ==
    CASE lock \in {"90 graderslock hane", "90 graderslock hona"} -> Mm(11) + 50
      [] lock \in {"Slutlock hane", "Slutlock hona"} -> Mm(25)
      [] lock \in {"Moteslock hane", "Moteslock hona"} -> Mm(5)
      [] lock \in {"Overlas dubbel", "Overlas"} -> Mm(30)
      [] lock \in {"Undre las dubbel", "Undre las"} -> Mm(5)
      [] OTHER -> 0

\* LOCK_WIDTHS[lock] ?? 0
LOCK_WIDTHS(lock) ==
    CASE lock \in {"90 graderslock hane", "90 graderslock hona"} -> Mm(11) + 50
      [] lock = "Variabelt andlock" -> Mm(7) + 90
      [] lock \in {"Slutlock hane", "Slutlock hona"} -> Mm(25)
      [] lock \in {"Moteslock hane", "Moteslock hona"} -> Mm(5)
      [] lock \in {"Overlas dubbel", "Overlas"} -> Mm(30)
      [] lock \in {"Undre las dubbel", "Undre las"} -> Mm(5)
      [] OTHER -> 0

\* determineLockAtEdge with the 90 degree window one degree wider
determineLockAtEdgeWide(angle) ==
    IF angle = 0 THEN "Slutlock hona"
    ELSE IF Abs(angle) >= 86 /\ Abs(angle) =< 94 THEN "90 graderslock hona"
    ELSE "Variabelt andlock"

determineLockAtEdge(angle) ==
    IF angle = 0 THEN "Slutlock hona"
    ELSE IF Abs(angle) > 86 /\ Abs(angle) < 94 THEN "90 graderslock hona"
    ELSE "Variabelt andlock"

determineLockAtEdgeEnd(angle) ==
    IF angle = 0 THEN "Slutlock hane"
    ELSE IF Abs(angle) > 86 /\ Abs(angle) < 94 THEN "90 graderslock hane"
    ELSE "Variabelt andlock"

\* panels.filter(p => p.opening === o).length
OpeningCount(ps, o) == Cardinality({i \in 1..Len(ps) : ps[i].opening = o})

\* the fixed glass override that looks at the neighbour only
FixedGlassOverrideNeighbourOnly(ps, i, j) ==
    ps[j].opening = "X"

\* the test of the fixed glass override, panel i against its neighbour j
FixedGlassOverride(ps, i, j) ==
    \/ ps[j].opening = "X"
    \/ (ps[i].opening = "X" /\ ps[j].opening # "X")

\* topLeft and bottomLeft of panel i
CornerLockLeft(ps, i, sAngle) ==
    LET atEdge == IF i = 1 THEN determineLockAtEdge(sAngle) ELSE "Moteslock hona"
    IN  IF i > 1 /\ FixedGlassOverride(ps, i, i - 1)
        THEN "Variabelt andlock" ELSE atEdge

\* topRight and bottomRight of panel i
CornerLockRight(ps, i, eAngle) ==
    LET atEdge == IF i = Len(ps) THEN determineLockAtEdgeEnd(eAngle)
                  ELSE "Moteslock hane"
    IN  IF i < Len(ps) /\ FixedGlassOverride(ps, i, i + 1)
        THEN "Variabelt andlock" ELSE atEdge

\* the panel lock without the test that the direction is the only one
PanelLockAnyCount(ps, i) ==
    LET bySymbol ==
            IF ps[i].lock = "||"
            THEN [topLock |-> "Overlas dubbel", bottomLock |-> "Vridlas"]
            ELSE IF ps[i].lock = "|"
            THEN [topLock |-> "Overlas", bottomLock |-> "Vridlas"]
            ELSE [topLock |-> Null, bottomLock |-> Null]
    IN  IF ps[i].opening = "<"
        THEN [topLock |-> "D-Vanster", bottomLock |-> "D-Vridlas"]
        ELSE IF ps[i].opening = ">"
        THEN [topLock |-> "D-Hoger", bottomLock |-> "D-Vridlas"]
        ELSE bySymbol

\* topLock and bottomLock of panel i
PanelLock(ps, i) ==
    LET leftCount == OpeningCount(ps, "<")
        rightCount == OpeningCount(ps, ">")
        bySymbol ==
            IF ps[i].lock = "||"
            THEN [topLock |-> "Overlas dubbel", bottomLock |-> "Vridlas"]
            ELSE IF ps[i].lock = "|"
            THEN [topLock |-> "Overlas", bottomLock |-> "Vridlas"]
            ELSE [topLock |-> Null, bottomLock |-> Null]
    IN  IF ps[i].opening = "<" /\ leftCount = 1
        THEN [topLock |-> "D-Vanster", bottomLock |-> "D-Vridlas"]
        ELSE IF ps[i].opening = ">" /\ rightCount = 1
        THEN [topLock |-> "D-Hoger", bottomLock |-> "D-Vridlas"]
        ELSE bySymbol

\* frameHeight is a parameter the code never reads
calculatePanelFittings(ps, sAngle, eAngle, fh) ==
    [i \in 1..Len(ps) |->
        LET left == CornerLockLeft(ps, i, sAngle)
            right == CornerLockRight(ps, i, eAngle)
            lockPair == PanelLock(ps, i)
        IN  [topLeft |-> left, topRight |-> right,
             bottomLeft |-> left, bottomRight |-> right,
             topLock |-> lockPair.topLock, bottomLock |-> lockPair.bottomLock,
             glassWidth |-> RoundTenth(ps[i].length - LOCK_WIDTHS(left)
                                       - LOCK_WIDTHS(right)),
             offsetLeft |-> ps[i].offsetLeft,
             offsetRight |-> ps[i].offsetRight]]

----------------------------------------------------------------------------
(* recalcPanelOffsets                                                      *)

\* betweenPanelOffset that looks at the panel itself only
betweenPanelOffsetOwnOnly(ps, index, side) ==
    IF (side = "left" /\ index > 1) \/ (side = "right" /\ index < Len(ps))
    THEN IF ps[index].opening = "X"
         THEN PASSRUTA_PANEL_OFFSET ELSE MIDDLE_PANEL_OFFSET
    ELSE 0

\* index counts from 1
betweenPanelOffset(ps, index, side) ==
    IF side = "left" /\ index > 1
    THEN IF ps[index - 1].opening = "X" \/ ps[index].opening = "X"
         THEN PASSRUTA_PANEL_OFFSET ELSE MIDDLE_PANEL_OFFSET
    ELSE IF side = "right" /\ index < Len(ps)
    THEN IF ps[index + 1].opening = "X" \/ ps[index].opening = "X"
         THEN PASSRUTA_PANEL_OFFSET ELSE MIDDLE_PANEL_OFFSET
    ELSE 0

recalcPanelOffsets(ps, sAngle, eAngle, sWall, eWall) ==
    IF Len(ps) = 0 THEN ps
    ELSE LET left == calculateOffset(sAngle, sWall)
             right == calculateOffset(eAngle, eWall)
         IN  [i \in 1..Len(ps) |->
                [ps[i] EXCEPT
                    !.offsetLeft = IF i = 1 THEN RoundTenth(left.offset)
                                   ELSE betweenPanelOffset(ps, i, "left"),
                    !.offsetRight = IF i = Len(ps) THEN RoundTenth(right.offset)
                                    ELSE betweenPanelOffset(ps, i, "right")]]

----------------------------------------------------------------------------
(* Guide geometry on axis-parallel segments, where it is exact             *)

Sgn(a) == IF a > 0 THEN 1 ELSE IF a < 0 THEN -1 ELSE 0

\* Math.sqrt(dx * dx + dy * dy) of an axis-parallel segment
distance2D(p, q) ==
    CASE p.y = q.y -> Abs(q.x - p.x)
      [] p.x = q.x -> Abs(q.y - p.y)

\* (dx, dy) / length of an axis-parallel segment, (0, 0) for a point
Direction(p, q) ==
    CASE p.y = q.y -> [x |-> Sgn(q.x - p.x), y |-> 0]
      [] p.x = q.x -> [x |-> 0, y |-> Sgn(q.y - p.y)]

\* acos of the cosine between the rays vertex -> p1 and vertex -> p3, in
\* degrees; 180 when a ray has no length
angleBetweenSegments(p1, vertex, p3) ==
    LET v1 == Direction(vertex, p1)
        v2 == Direction(vertex, p3)
        cosAngle == v1.x * v2.x + v1.y * v2.y
    IN  IF distance2D(vertex, p1) = 0 \/ distance2D(vertex, p3) = 0 THEN 180
        ELSE CASE cosAngle = 1 -> 0
               [] cosAngle = 0 -> 90
               [] cosAngle = -1 -> 180

\* applySnap with snapAngle on: a target on an axis through the origin is at
\* a snap angle already and is returned at its distance along that axis
applySnap(target, origin) ==
    IF origin = NullRecord \/ distance2D(origin, target) = 0 THEN target
    ELSE [x |-> origin.x + Direction(origin, target).x * distance2D(origin, target),
          y |-> origin.y + Direction(origin, target).y * distance2D(origin, target)]

----------------------------------------------------------------------------
(* Wall detection and the panels of one guide segment.  Segment and point  *)
(* indices count from 0 as in the code; the sequences count from 1.        *)

\* isConnectedToWall that looks at the edge itself
isConnectedToWallOwnEdge(cfgs, i, side) ==
    i >= 0 /\ i + 1 <= Len(cfgs) /\ cfgs[i + 1].wallOrGlazingStatus = "wall"

isConnectedToWall(cfgs, i, side) ==
    IF side = "start" /\ i > 0
    THEN i <= Len(cfgs) /\ cfgs[i].wallOrGlazingStatus = "wall"
    ELSE IF side = "end" /\ i < Len(cfgs) - 1
    THEN i + 2 >= 1 /\ cfgs[i + 2].wallOrGlazingStatus = "wall"
    ELSE FALSE

\* Math.sqrt((e.x - s.x) ** 2 + (e.y - s.y) ** 2) of segment i
SegmentLength(pts, i) == distance2D(pts[i + 1], pts[i + 2])

\* startAngle of segment i: 0 on the first segment
SegmentStartAngle(pts, i) ==
    IF i > 0 THEN angleBetweenSegments(pts[i], pts[i + 1], pts[i + 2]) ELSE 0

\* endAngle of segment i: 0 on the last segment
SegmentEndAngle(pts, i) ==
    IF i + 2 < Len(pts) THEN angleBetweenSegments(pts[i + 1], pts[i + 2], pts[i + 3])
    ELSE 0

\* the sibling generator of the free glass width mode: numPanels equal shares
\* of availableForGlass (to 0.01 mm), offsets and locks as the standard
\* generator builds them
evenDistributePanelsForEdge(len, sAngle, eAngle, sWall, eWall) ==
    LET leftOffset == calculateOffset(sAngle, sWall).offset
        rightOffset == calculateOffset(eAngle, eWall).offset
        availableLength == len - leftOffset - rightOffset
        numPanels == NumPanels(availableLength)
        availableForGlass == AvailableForGlass(availableLength)
        share == (2 * availableForGlass + numPanels) \div (2 * numPanels)
    IN  IF availableLength < Mm(50)
        THEN DegeneratePanel(availableLength, leftOffset, rightOffset)
        ELSE autoAssignLocks(
                [k \in 1..numPanels |->
                    [name |-> ToString(k),
                     length |-> share,
                     opening |-> ">",
                     lock |-> "-",
                     offsetLeft |-> IF k = 1 THEN RoundTenth(leftOffset)
                                    ELSE MIDDLE_PANEL_OFFSET,
                     offsetRight |-> IF k = numPanels THEN RoundTenth(rightOffset)
                                     ELSE MIDDLE_PANEL_OFFSET]])

\* the panels the store generates for segment i in the current mode
GeneratePanels(pts, cfgs, free, i) ==
    LET len == SegmentLength(pts, i)
        sAngle == SegmentStartAngle(pts, i)
        eAngle == SegmentEndAngle(pts, i)
        sWall == isConnectedToWall(cfgs, i, "start")
        eWall == isConnectedToWall(cfgs, i, "end")
    IN  IF free THEN evenDistributePanelsForEdge(len, sAngle, eAngle, sWall, eWall)
        ELSE autoGeneratePanelsForEdge(len, sAngle, eAngle, sWall, eWall)

----------------------------------------------------------------------------
(* Helpers of the config store (src/src/store/useConfigStore.ts)           *)

\* sum of p.length + p.offsetLeft + p.offsetRight
RECURSIVE TotalModule(_)
TotalModule(ps) ==
    IF Len(ps) = 0 THEN 0
    ELSE ps[1].length + ps[1].offsetLeft + ps[1].offsetRight + TotalModule(Tail(ps))

\* resizeSegmentToFitPanels moving the start of the segment instead of its end
resizeSegmentToFitPanelsFromEnd(pts, cfgs, i) ==
    IF i < 0 \/ i >= Len(pts) - 1 THEN pts
    ELSE IF i + 1 > Len(cfgs) THEN pts
    ELSE IF Len(cfgs[i + 1].panels) = 0 THEN pts
    ELSE IF TotalModule(cfgs[i + 1].panels) <= 0 THEN pts
    ELSE IF SegmentLength(pts, i) = 0 THEN pts
    ELSE LET e == pts[i + 2]
             dir == Direction(pts[i + 1], pts[i + 2])
             totalModule == TotalModule(cfgs[i + 1].panels)
         IN  [pts EXCEPT ![i + 1] = [x |-> e.x - dir.x * totalModule,
                                     y |-> e.y - dir.y * totalModule]]

\* resizeSegmentToFitPanels: the guide points after the call
resizeSegmentToFitPanels(pts, cfgs, i) ==
    IF i < 0 \/ i >= Len(pts) - 1 THEN pts
    ELSE IF i + 1 > Len(cfgs) THEN pts
    ELSE IF Len(cfgs[i + 1].panels) = 0 THEN pts
    ELSE IF TotalModule(cfgs[i + 1].panels) <= 0 THEN pts
    ELSE IF SegmentLength(pts, i) = 0 THEN pts
    ELSE LET st == pts[i + 1]
             dir == Direction(pts[i + 1], pts[i + 2])
             totalModule == TotalModule(cfgs[i + 1].panels)
         IN  [pts EXCEPT ![i + 2] = [x |-> st.x + dir.x * totalModule,
                                     y |-> st.y + dir.y * totalModule]]

\* autoGenForSegment: the edge configs after the call
autoGenForSegment(pts, cfgs, free, i) ==
    IF i < 0 \/ i >= Len(pts) - 1 THEN cfgs
    ELSE IF i + 1 > Len(cfgs) THEN cfgs
    ELSE IF cfgs[i + 1].wallOrGlazingStatus = "wall" THEN cfgs
    ELSE IF Len(cfgs[i + 1].panels) > 0 THEN cfgs
    ELSE IF SegmentLength(pts, i) < Mm(50) THEN cfgs
    ELSE [cfgs EXCEPT ![i + 1].panels = GeneratePanels(pts, cfgs, free, i)]

\* the loop at the end of syncEdgeConfigs, from segment i on
RECURSIVE AutoGenFrom(_, _, _, _, _)
AutoGenFrom(pts, cfgs, free, i, segCount) ==
    IF i >= segCount THEN cfgs
    ELSE AutoGenFrom(pts, autoGenForSegment(pts, cfgs, free, i), free, i + 1, segCount)

\* syncEdgeConfigs without the truncation of a too long array
syncEdgeConfigsNoTruncate(pts, cfgs, sel, free) ==
    LET segCount == IF Len(pts) > 1 THEN Len(pts) - 1 ELSE 0
        sized == [k \in 1..Max(segCount, Len(cfgs)) |->
                    IF k <= Len(cfgs) THEN cfgs[k]
                    ELSE [wallOrGlazingStatus |-> "glazing", panels |-> <<>>]]
    IN  [edgeConfigs |-> AutoGenFrom(pts, sized, free, 0, segCount),
         selectedSegmentIndex |->
            IF sel # NullIndex /\ sel >= segCount
            THEN IF segCount > 0 THEN segCount - 1 ELSE NullIndex
            ELSE sel]

\* syncEdgeConfigs: the edge configs and the selection after the call
syncEdgeConfigs(pts, cfgs, sel, free) ==
    LET segCount == IF Len(pts) > 1 THEN Len(pts) - 1 ELSE 0
        sized == [k \in 1..segCount |->
                    IF k <= Len(cfgs) THEN cfgs[k]
                    ELSE [wallOrGlazingStatus |-> "glazing", panels |-> <<>>]]
    IN  [edgeConfigs |-> AutoGenFrom(pts, sized, free, 0, segCount),
         selectedSegmentIndex |->
            IF sel # NullIndex /\ sel >= segCount
            THEN IF segCount > 0 THEN segCount - 1 ELSE NullIndex
            ELSE sel]

Min(a, b) == IF a <= b THEN a ELSE b

\* array.splice(k, 1), k counting from 0
SpliceOut(seq, k) == [j \in 1..(Len(seq) - 1) |-> IF j <= k THEN seq[j] ELSE seq[j + 1]]

\* array.splice(k, 0, e), k counting from 0; a k past the end appends
SpliceIn(seq, k, e) ==
    [j \in 1..(Len(seq) + 1) |->
        IF j <= Min(k, Len(seq)) THEN seq[j]
        ELSE IF j = Min(k, Len(seq)) + 1 THEN e
        ELSE seq[j - 1]]

\* movePoint: a glazing edge next to the moved point loses its panels and is
\* generated again
ClearAndGenerate(pts, cfgs, free, i) ==
    IF i + 1 <= Len(cfgs) /\ cfgs[i + 1].wallOrGlazingStatus = "glazing"
    THEN autoGenForSegment(pts, [cfgs EXCEPT ![i + 1].panels = <<>>], free, i)
    ELSE cfgs

\* the panel addPanel pushes
NewPanel(ps) ==
    [name |-> ToString(Len(ps) + 1), length |-> Mm(500), opening |-> ">",
     lock |-> "-", offsetLeft |-> 0, offsetRight |-> 0]

\* panels.forEach((p, i) => { p.name = `${i + 1}` })
Renamed(ps) == [k \in 1..Len(ps) |-> [ps[k] EXCEPT !.name = ToString(k)]]

\* the store fields an action may change
StorePart(pts, cfgs, sel) ==
    [guidePoints |-> pts, edgeConfigs |-> cfgs, selectedSegmentIndex |-> sel]

\* edge i of cfgs holding the panels ps, resized to them in standard mode
WithPanels(pts, cfgs, sel, free, i, ps) ==
    StorePart(IF free THEN pts
              ELSE resizeSegmentToFitPanels(pts, [cfgs EXCEPT ![i + 1].panels = ps], i),
              [cfgs EXCEPT ![i + 1].panels = ps], sel)

\* autoGeneratePanels after its call of syncEdgeConfigs
GenerateSynced(pts, sc, sel, free, i) ==
    IF i < 0 \/ i >= Len(pts) - 1 THEN StorePart(pts, sc, sel)
    ELSE IF i + 1 > Len(sc) \/ sc[i + 1].wallOrGlazingStatus = "wall"
    THEN StorePart(pts, sc, sel)
    ELSE WithPanels(pts, sc, sel, free, i, GeneratePanels(pts, sc, free, i))

\* the body of autoGeneratePanels: guide points, edge configs and selection
\* after the call
autoGeneratePanels(pts, cfgs, sel, free, i) ==
    GenerateSynced(pts, syncEdgeConfigs(pts, cfgs, sel, free).edgeConfigs,
                   syncEdgeConfigs(pts, cfgs, sel, free).selectedSegmentIndex, free, i)

\* the loop of toggleFreeGlassWidth from segment i on, free being the new mode
RECURSIVE RegenerateFrom(_, _, _, _)
RegenerateFrom(st, free, i, segCount) ==
    IF i >= segCount THEN st
    ELSE IF i + 1 > Len(st.edgeConfigs)
            \/ st.edgeConfigs[i + 1].wallOrGlazingStatus = "wall"
    THEN RegenerateFrom(st, free, i + 1, segCount)
    ELSE IF SegmentLength(st.guidePoints, i) < Mm(50)
    THEN RegenerateFrom(st, free, i + 1, segCount)
    ELSE RegenerateFrom(
            WithPanels(st.guidePoints, st.edgeConfigs, st.selectedSegmentIndex, free, i,
                       GeneratePanels(st.guidePoints, st.edgeConfigs, free, i)),
            free, i + 1, segCount)

\* Math.cos(outAngle - inAngle) of updateAngle on a straight guide
\* (cross = 0): outAngle = inAngle + PI - newAngle
TurnCos(newAngle) ==
    CASE newAngle = 180 -> 1
      [] newAngle = 0 -> -1

----------------------------------------------------------------------------
(* Cut lengths                                                             *)

MITER_DISTANCE_OVERSKENA == Mm(80) + 50
MITER_DISTANCE_OVERHALLARE == -(Mm(37) + 10)
MITER_DISTANCE_COVERPROFILE == -(Mm(88) + 9)
COVER_PROFILE_WALL_OFFSET == Mm(54)

\* distance * Math.tan(rad), to the nearest hundredth of a millimetre
offsetDueToMiter(distance, angleDegrees) ==
    IF angleDegrees = 0 THEN 0
    ELSE (2 * distance * TanHalfE4(angleDegrees) + 10000) \div 20000

\* the wall bonus given once however many of the two angles are 0
coverProfileOffsetOnce(sAngle, eAngle) ==
    IF sAngle = 0 \/ eAngle = 0 THEN COVER_PROFILE_WALL_OFFSET ELSE 0

coverProfileOffset(sAngle, eAngle) ==
    (IF sAngle = 0 THEN COVER_PROFILE_WALL_OFFSET ELSE 0)
    + (IF eAngle = 0 THEN COVER_PROFILE_WALL_OFFSET ELSE 0)

calculateCutLengths(totalLength, poLeft, poRight, sAngle, eAngle) ==
    LET underskena == totalLength + poLeft + poRight
    IN  [underskena |-> underskena,
         overskena |-> underskena
                       + offsetDueToMiter(MITER_DISTANCE_OVERSKENA, sAngle)
                       + offsetDueToMiter(MITER_DISTANCE_OVERSKENA, eAngle),
         overhallare |-> underskena
                         + offsetDueToMiter(MITER_DISTANCE_OVERHALLARE, sAngle)
                         + offsetDueToMiter(MITER_DISTANCE_OVERHALLARE, eAngle),
         coverprofile |-> underskena
                          + offsetDueToMiter(MITER_DISTANCE_COVERPROFILE, sAngle)
                          + offsetDueToMiter(MITER_DISTANCE_COVERPROFILE, eAngle)
                          + coverProfileOffset(sAngle, eAngle)]

----------------------------------------------------------------------------
(* computeEdgeData                                                         *)

\* the side number counted from 0
sideNumberFromZero(i) == i

\* sideNumber = segIndex + 1
sideNumber(i) == i + 1

\* edge?.panels ?? []
EdgePanels(cfgs, i) == IF i + 1 <= Len(cfgs) THEN cfgs[i + 1].panels ELSE <<>>

\* the panel fittings computed for a wall edge too
panelFittingsAnyStatus(cfgs, i, sAngle, eAngle, fh) ==
    calculatePanelFittings(EdgePanels(cfgs, i), sAngle, eAngle, fh)

\* edge?.wallOrGlazingStatus === 'wall' ? [] : calculatePanelFittings(...)
panelFittings(cfgs, i, sAngle, eAngle, fh) ==
    IF i + 1 <= Len(cfgs) /\ cfgs[i + 1].wallOrGlazingStatus = "wall" THEN <<>>
    ELSE calculatePanelFittings(EdgePanels(cfgs, i), sAngle, eAngle, fh)

\* the record computeEdgeData returns for a segment of the guide
EdgeDataOf(pts, cfgs, i, fh, sAngle, eAngle, sWall, eWall) ==
    LET len == SegmentLength(pts, i)
        leftResult == calculateOffset(sAngle, sWall)
        rightResult == calculateOffset(eAngle, eWall)
        total == TotalModule(EdgePanels(cfgs, i))
        cut == calculateCutLengths(len, leftResult.profileOffset,
                                   rightResult.profileOffset, sAngle, eAngle)
    IN  [sideNumber |-> sideNumber(i),
         edgeLength |-> RoundTenth(len),
         startAngle |-> sAngle,
         endAngle |-> eAngle,
         startConnectedToWall |-> sWall,
         endConnectedToWall |-> eWall,
         profileOffsetLeft |-> RoundTenth(leftResult.profileOffset),
         profileOffsetRight |-> RoundTenth(rightResult.profileOffset),
         totalModuleLength |-> RoundTenth(total),
         spelGuide |-> RoundTenth(len - total),
         cutLengths |-> [underskena |-> RoundTenth(cut.underskena),
                         overskena |-> RoundTenth(cut.overskena),
                         overhallare |-> RoundTenth(cut.overhallare),
                         coverprofile |-> RoundTenth(cut.coverprofile)],
         panelFittings |-> panelFittings(cfgs, i, sAngle, eAngle, fh)]

computeEdgeData(pts, cfgs, i, fh) ==
    IF i < 0 \/ i >= Len(pts) - 1 THEN NullRecord
    ELSE EdgeDataOf(pts, cfgs, i, fh,
                    SegmentStartAngle(pts, i), SegmentEndAngle(pts, i),
                    isConnectedToWall(cfgs, i, "start"),
                    isConnectedToWall(cfgs, i, "end"))

----------------------------------------------------------------------------
(* calculateOffsetPoints, on polylines of axis-parallel segments with      *)
(* coordinates in whole millimetres                                        *)

GUIDE_OFFSET_DISTANCE == -10
GUIDE_START_INSET == 20
GUIDE_END_INSET == 20

\* null when the directions are parallel (Math.abs(denom) < 1e-10)
lineLineIntersection2D(p1, d1, p2, d2) ==
    LET denom == d1.x * d2.y - d1.y * d2.x
        num == (p2.x - p1.x) * d2.y - (p2.y - p1.y) * d2.x
    IN  IF denom = 0 THEN NullRecord
        ELSE [x |-> p1.x + (num * d1.x) \div denom,
              y |-> p1.y + (num * d1.y) \div denom]

\* the left-side unit normal of (dx, dy), (0, 0) for no direction
perpendicular(dx, dy) ==
    LET len == distance2D([x |-> 0, y |-> 0], [x |-> dx, y |-> dy])
    IN  IF len = 0 THEN [x |-> 0, y |-> 0]
        ELSE [x |-> (-dy) \div len, y |-> dx \div len]

\* segment i (from 1) of the polyline moved sideways by offsetDist
OffsetSegment(pts, i, offsetDist) ==
    LET p1 == pts[i]
        p2 == pts[i + 1]
        perp == perpendicular(p2.x - p1.x, p2.y - p1.y)
    IN  [start |-> [x |-> p1.x + perp.x * offsetDist, y |-> p1.y + perp.y * offsetDist],
         end |-> [x |-> p2.x + perp.x * offsetDist, y |-> p2.y + perp.y * offsetDist],
         dx |-> p2.x - p1.x,
         dy |-> p2.y - p1.y]

\* the first point: the start of the first offset segment moved along it
FirstPoint(firstSeg, startInset) ==
    LET firstLen == distance2D(firstSeg.start, firstSeg.end)
    IN  IF firstLen > 0
        THEN [x |-> firstSeg.start.x + (firstSeg.dx * startInset) \div firstLen,
              y |-> firstSeg.start.y + (firstSeg.dy * startInset) \div firstLen]
        ELSE firstSeg.start

\* the point between parallel segments taken from the second one
MiddlePointOfSecond(seg1, seg2) ==
    LET intersection ==
            lineLineIntersection2D(seg1.start, [x |-> seg1.dx, y |-> seg1.dy],
                                   seg2.start, [x |-> seg2.dx, y |-> seg2.dy])
    IN  IF intersection # NullRecord THEN intersection ELSE seg2.start

\* the point between two consecutive offset segments
MiddlePoint(seg1, seg2) ==
    LET intersection ==
            lineLineIntersection2D(seg1.start, [x |-> seg1.dx, y |-> seg1.dy],
                                   seg2.start, [x |-> seg2.dx, y |-> seg2.dy])
    IN  IF intersection # NullRecord THEN intersection ELSE seg1.end

\* the last point: the end of the last offset segment moved back along it
LastPoint(lastSeg, endInset) ==
    LET lastLen == distance2D(lastSeg.start, lastSeg.end)
    IN  IF lastLen > 0
        THEN [x |-> lastSeg.end.x - (lastSeg.dx * endInset) \div lastLen,
              y |-> lastSeg.end.y - (lastSeg.dy * endInset) \div lastLen]
        ELSE lastSeg.end

calculateOffsetPoints(pts, offsetDist, startInset, endInset) ==
    IF Len(pts) < 2 THEN <<>>
    ELSE LET offsetSegments ==
                 [i \in 1..(Len(pts) - 1) |-> OffsetSegment(pts, i, offsetDist)]
         IN  <<FirstPoint(offsetSegments[1], startInset)>>
             \o [i \in 1..(Len(offsetSegments) - 1) |->
                    MiddlePoint(offsetSegments[i], offsetSegments[i + 1])]
             \o <<LastPoint(offsetSegments[Len(offsetSegments)], endInset)>>

----------------------------------------------------------------------------
(* The PLY cache (src/src/utils/plyCache.ts).  A promise is known by its   *)
(* position in the list of promises created; the loader calls back later,  *)
(* once, with the geometry or with an error.                               *)

\* the cache entry of a loaded file
CacheEntry(file) == [geometry |-> file]

\* cache.get(file) ?? null
getPlyGeometry(c, file) == c[file]

\* loading.has(file)
isPlyLoading(ldg, file) == ldg[file] # NullIndex

\* what loadPly returns: Promise.resolve(cached), or a promise of the list
ResolvedWith(entry) == [kind |-> "resolved", entry |-> entry, id |-> NullIndex]

PromiseAt(id) == [kind |-> "promise", entry |-> NullRecord, id |-> id]

\* the two maps, the promises and the loader counts as one value
PlyState(c, ldg, prs, starts) ==
    [cache |-> c, loading |-> ldg, promises |-> prs, loaderStarts |-> starts]

\* loadPly that starts a loader whenever the file is not cached
loadPlyNoSharing(st, file) ==
    IF st.cache[file] # NullRecord
    THEN [state |-> st, result |-> ResolvedWith(st.cache[file])]
    ELSE [state |-> PlyState(st.cache,
                             [st.loading EXCEPT ![file] = Len(st.promises) + 1],
                             Append(st.promises, [file |-> file, status |-> "pending"]),
                             [st.loaderStarts EXCEPT ![file] = @ + 1]),
          result |-> PromiseAt(Len(st.promises) + 1)]

\* loadPly(file): the state it leaves and the promise it returns
loadPly(st, file) ==
    IF st.cache[file] # NullRecord
    THEN [state |-> st, result |-> ResolvedWith(st.cache[file])]
    ELSE IF st.loading[file] # NullIndex
    THEN [state |-> st, result |-> PromiseAt(st.loading[file])]
    ELSE [state |-> PlyState(st.cache,
                             [st.loading EXCEPT ![file] = Len(st.promises) + 1],
                             Append(st.promises, [file |-> file, status |-> "pending"]),
                             [st.loaderStarts EXCEPT ![file] = @ + 1]),
          result |-> PromiseAt(Len(st.promises) + 1)]

\* the loader's success callback of promise id
onLoad(st, id) ==
    PlyState([st.cache EXCEPT ![st.promises[id].file] = CacheEntry(st.promises[id].file)],
             [st.loading EXCEPT ![st.promises[id].file] = NullIndex],
             [st.promises EXCEPT ![id].status = "resolved"],
             st.loaderStarts)

\* an error callback that leaves the promise in the loading map
onErrorKeepLoading(st, id) ==
    PlyState(st.cache,
             st.loading,
             [st.promises EXCEPT ![id].status = "rejected"],
             st.loaderStarts)

\* the loader's error callback of promise id
onError(st, id) ==
    PlyState(st.cache,
             [st.loading EXCEPT ![st.promises[id].file] = NullIndex],
             [st.promises EXCEPT ![id].status = "rejected"],
             st.loaderStarts)

----------------------------------------------------------------------------
(* Bounds of the model                                                     *)

\* edge lengths are 0, 0.5 mm, 1 mm, ..., MaxEdgeHalfMm / 2 mm
MaxEdgeHalfMm == 6000

\* panel lists given to autoAssignLocks have at most MaxPanels panels
MaxPanels == 3

EdgeLengths == {k * (Mm(1) \div 2) : k \in 0..MaxEdgeHalfMm}

\* corner angles in degrees: straight, convex and concave right angle, 135
Angles == {0, 90, -90, 135}

Openings == {">", "<", "X"}

\* LockSymbol of src/src/types/panel.ts: single, double, dash, none
LockSymbols == {"|", "||", "-", ""}

\* a list of n panels with any openings and lock symbols
PanelLists(n) ==
    {[i \in 1..n |->
        [name |-> ToString(i), length |-> Mm(500),
         opening |-> o[i], lock |-> l[i],
         offsetLeft |-> MIDDLE_PANEL_OFFSET, offsetRight |-> MIDDLE_PANEL_OFFSET]] :
     o \in [1..n -> Openings], l \in [1..n -> LockSymbols]}

----------------------------------------------------------------------------
(* Values of the variables a specification does not use                    *)

FitIdle == frameHeight = 0 /\ fittings = <<>>

CutIdle == profileOffsetLeft = 0 /\ profileOffsetRight = 0 /\ cutLengths = NullRecord

EdgeIdle == segIndex = 0 /\ edgeData = NullRecord

OffsetIdle == leftOffsetResult = NullRecord /\ rightOffsetResult = NullRecord

PointsIdle == points = <<>> /\ offsetDistance = 0 /\ offsetPoints = <<>>

PlyIdle ==
    /\ cache = <<>> /\ loading = <<>> /\ promises = <<>>
    /\ loaderStarts = <<>> /\ returned = <<>> /\ lastCall = NullRecord

RestIdle == OffsetIdle /\ PointsIdle /\ PlyIdle

GenIdle ==
    /\ edgeLength = 0
    /\ startAngle = 0
    /\ endAngle = 0
    /\ startConnectedToWall = FALSE
    /\ endConnectedToWall = FALSE
    /\ panelsBefore = <<>>
    /\ panels = <<>>

\* the store as create() builds it
StoreInit ==
    /\ guidePoints = <<>>
    /\ previewPoint = NullRecord
    /\ isDrawing = FALSE
    /\ freeGlassWidth = TRUE
    /\ activeMode = "select"
    /\ selectedSegmentIndex = NullIndex
    /\ edgeConfigs = <<>>
    /\ steps = 0

----------------------------------------------------------------------------
(* Panel generation: an input is drawn, then the generator runs            *)

InitGen ==
    /\ pc = "input"
    /\ edgeLength \in EdgeLengths
    /\ startAngle \in Angles
    /\ endAngle \in Angles
    /\ startConnectedToWall \in BOOLEAN
    /\ endConnectedToWall \in BOOLEAN
    /\ panelsBefore = <<>>
    /\ panels = <<>>
    /\ FitIdle /\ CutIdle /\ StoreInit /\ EdgeIdle /\ RestIdle

AutoGenerate ==
    /\ pc = "input"
    /\ panels' = autoGeneratePanelsForEdge(edgeLength, startAngle, endAngle,
                                           startConnectedToWall, endConnectedToWall)
    /\ pc' = "generated"
    /\ UNCHANGED <<edgeLength, startAngle, endAngle,
                   startConnectedToWall, endConnectedToWall, panelsBefore>>
    /\ UNCHANGED <<fitVars, cutVars, storeVars, edgeVars, restVars>>

NextGen == AutoGenerate

SpecGen == InitGen /\ [][NextGen]_vars

----------------------------------------------------------------------------
(* autoAssignLocks on any panel list                                       *)

InitLocks ==
    /\ pc = "locksInput"
    /\ edgeLength = 0
    /\ startAngle = 0
    /\ endAngle = 0
    /\ startConnectedToWall = FALSE
    /\ endConnectedToWall = FALSE
    /\ panelsBefore \in UNION {PanelLists(n) : n \in 0..MaxPanels}
    /\ panels = panelsBefore
    /\ FitIdle /\ CutIdle /\ StoreInit /\ EdgeIdle /\ RestIdle

AssignLocks ==
    /\ pc = "locksInput"
    /\ panels' = autoAssignLocks(panelsBefore)
    /\ pc' = "locksAssigned"
    /\ UNCHANGED <<edgeLength, startAngle, endAngle,
                   startConnectedToWall, endConnectedToWall, panelsBefore>>
    /\ UNCHANGED <<fitVars, cutVars, storeVars, edgeVars, restVars>>

NextLocks == AssignLocks

SpecLocks == InitLocks /\ [][NextLocks]_vars

----------------------------------------------------------------------------
(* calculatePanelFittings on any panel list and pair of corner angles      *)

\* corner angles around the window of the 90 degree lock
FitAngles == {0, 86, 90, -93, 94}

\* Mellanstycke - Understycke of the default levels, and a taller frame
FrameHeights == {Mm(1000), Mm(2000)}

\* lists of one or two panels of 612.34 mm with the offsets of an edge end
\* and of a fixed neighbour
VariedPanelLists ==
    UNION {{[i \in 1..n |->
                [name |-> ToString(i), length |-> Mm(612) + 34,
                 opening |-> o[i], lock |-> "|",
                 offsetLeft |-> DEFAULT_OFFSET_ANGLE_ZERO,
                 offsetRight |-> PASSRUTA_PANEL_OFFSET]] :
            o \in [1..n -> Openings]} : n \in 1..2}

InitFit ==
    /\ pc = "fitInput"
    /\ panelsBefore \in UNION {PanelLists(n) : n \in 0..MaxPanels} \cup VariedPanelLists
    /\ edgeLength = 0
    /\ startAngle \in FitAngles
    /\ endAngle \in FitAngles
    /\ startConnectedToWall = FALSE
    /\ endConnectedToWall = FALSE
    /\ panels = panelsBefore
    /\ frameHeight \in FrameHeights
    /\ fittings = <<>>
    /\ CutIdle /\ StoreInit /\ EdgeIdle /\ RestIdle

CalculateFittings ==
    /\ pc = "fitInput"
    /\ fittings' = calculatePanelFittings(panels, startAngle, endAngle, frameHeight)
    /\ pc' = "fitted"
    /\ UNCHANGED <<genVars, frameHeight, cutVars, storeVars, edgeVars, restVars>>

NextFit == CalculateFittings

SpecFit == InitFit /\ [][NextFit]_vars

----------------------------------------------------------------------------
(* recalcPanelOffsets on any panel list, corner angles and wall flags      *)

InitRecalc ==
    /\ pc = "recalcInput"
    /\ panelsBefore \in UNION {PanelLists(n) : n \in 0..MaxPanels}
    /\ edgeLength = 0
    /\ startAngle \in Angles
    /\ endAngle \in Angles
    /\ startConnectedToWall \in BOOLEAN
    /\ endConnectedToWall \in BOOLEAN
    /\ panels = panelsBefore
    /\ FitIdle /\ CutIdle /\ StoreInit /\ EdgeIdle /\ RestIdle

RecalcOffsets ==
    /\ pc = "recalcInput"
    /\ panels' = recalcPanelOffsets(panelsBefore, startAngle, endAngle,
                                    startConnectedToWall, endConnectedToWall)
    /\ pc' = "recalculated"
    /\ UNCHANGED <<edgeLength, startAngle, endAngle,
                   startConnectedToWall, endConnectedToWall, panelsBefore>>
    /\ UNCHANGED <<fitVars, cutVars, storeVars, edgeVars, restVars>>

NextRecalc == RecalcOffsets

SpecRecalc == InitRecalc /\ [][NextRecalc]_vars

----------------------------------------------------------------------------
(* The config store.  The guide points lie on the x axis, where segment    *)
(* lengths, resizing and the corner angles (180 straight on, 0 turning     *)
(* back) are exact.                                                        *)

\* the guide has at most MaxPoints points
MaxPoints == 3

\* addPanel is offered while the edge has fewer than MaxEdgePanels panels
MaxEdgePanels == 2

\* points the user clicks or drags to: the origin and 1000 mm from it
PointChoices == {[x |-> Mm(k), y |-> 0] : k \in {0, 1000}}

\* indices the user passes, valid or past the end
Indices == 0..(MaxPoints - 1)

NewLengths == {Mm(1000)}

NewAngles == {0, 180}

\* updatePanelField(segIndex, panelIndex, field, value)
FieldValues == {<<"length", Mm(500)>>, <<"opening", "X">>}

Statuses == {"wall", "glazing"}

\* the guide stays within MaxCoordMm millimetres of the origin
MaxCoordMm == 2000

\* behaviours of the store have at most MaxSteps actions
MaxSteps == 5

Step == steps < MaxSteps /\ steps' = steps + 1

InWindow(pts) == \A k \in 1..Len(pts) : Abs(pts[k].x) <= Mm(MaxCoordMm)

InitStore ==
    /\ pc = "store"
    /\ GenIdle /\ FitIdle /\ CutIdle /\ EdgeIdle /\ RestIdle
    /\ StoreInit

\* an action that leaves the store fields st and touches nothing else
Becomes(st) ==
    /\ guidePoints' = st.guidePoints
    /\ edgeConfigs' = st.edgeConfigs
    /\ selectedSegmentIndex' = st.selectedSegmentIndex
    /\ InWindow(st.guidePoints)
    /\ Step
    /\ UNCHANGED <<pc, genVars, fitVars, cutVars, edgeVars, restVars,
                   previewPoint, isDrawing, freeGlassWidth, activeMode>>

\* syncEdgeConfigs(state) on the guide points pts
SyncOn(pts) ==
    StorePart(pts,
              syncEdgeConfigs(pts, edgeConfigs, selectedSegmentIndex,
                              freeGlassWidth).edgeConfigs,
              syncEdgeConfigs(pts, edgeConfigs, selectedSegmentIndex,
                              freeGlassWidth).selectedSegmentIndex)

AddPoint ==
    \E pt \in PointChoices :
        /\ Len(guidePoints) < MaxPoints
        /\ Becomes(SyncOn(Append(guidePoints,
                applySnap(pt, IF Len(guidePoints) > 0 THEN guidePoints[Len(guidePoints)]
                              ELSE NullRecord))))

MovePoint ==
    \E index \in Indices, pt \in PointChoices :
        /\ index < Len(guidePoints)
        /\ \E pts \in {[guidePoints EXCEPT ![index + 1] = pt]} :
           \E before \in {IF index > 0 /\ index - 1 < Len(pts) - 1
                           THEN ClearAndGenerate(pts, edgeConfigs, freeGlassWidth, index - 1)
                           ELSE edgeConfigs} :
              Becomes(StorePart(pts,
                        IF index < Len(pts) - 1
                        THEN ClearAndGenerate(pts, before, freeGlassWidth, index)
                        ELSE before,
                        selectedSegmentIndex))

RemovePoint ==
    \E index \in Indices :
        /\ Len(guidePoints) > 2
        /\ index < Len(guidePoints)
        /\ Becomes(SyncOn(SpliceOut(guidePoints, index)))

InsertPointOnSegment ==
    \E segmentIndex \in Indices, pt \in PointChoices :
        /\ Len(guidePoints) < MaxPoints
        /\ segmentIndex < Len(guidePoints) - 1
        /\ \E pts \in {SpliceIn(guidePoints, segmentIndex + 1, pt)} :
           \E cfgs \in {SpliceIn(edgeConfigs, segmentIndex + 1,
                            [wallOrGlazingStatus |->
                                IF segmentIndex + 1 <= Len(edgeConfigs)
                                THEN edgeConfigs[segmentIndex + 1].wallOrGlazingStatus
                                ELSE "glazing",
                             panels |-> <<>>])} :
           \E synced \in {syncEdgeConfigs(pts, cfgs, selectedSegmentIndex,
                                           freeGlassWidth)} :
              Becomes(StorePart(pts, synced.edgeConfigs, synced.selectedSegmentIndex))

UpdateSegmentLength ==
    \E segmentIndex \in Indices, newLength \in NewLengths :
        /\ segmentIndex < Len(guidePoints) - 1
        /\ SegmentLength(guidePoints, segmentIndex) # 0
        /\ \E st \in {guidePoints[segmentIndex + 1]} :
           \E dir \in {Direction(st, guidePoints[segmentIndex + 2])} :
              Becomes(StorePart(
                  [guidePoints EXCEPT ![segmentIndex + 2] =
                      [x |-> st.x + dir.x * newLength, y |-> st.y + dir.y * newLength]],
                  edgeConfigs, selectedSegmentIndex))

UpdateAngle ==
    \E vertexIndex \in Indices, newAngle \in NewAngles :
        /\ vertexIndex > 0
        /\ vertexIndex < Len(guidePoints) - 1
        /\ LET prev == guidePoints[vertexIndex]
               curr == guidePoints[vertexIndex + 1]
               next == guidePoints[vertexIndex + 2]
               inCos == IF curr.x - prev.x < 0 THEN -1 ELSE 1
               outLen == distance2D(curr, next)
           IN  Becomes(StorePart(
                  [guidePoints EXCEPT ![vertexIndex + 2] =
                      [x |-> curr.x + inCos * TurnCos(newAngle) * outLen, y |-> curr.y]],
                  edgeConfigs, selectedSegmentIndex))

UndoLastPoint ==
    \E st \in {SyncOn(IF Len(guidePoints) > 0
                       THEN SubSeq(guidePoints, 1, Len(guidePoints) - 1)
                       ELSE guidePoints)} :
        /\ guidePoints' = st.guidePoints
        /\ edgeConfigs' = st.edgeConfigs
        /\ selectedSegmentIndex' = st.selectedSegmentIndex
        /\ isDrawing' = IF Len(st.guidePoints) = 0 THEN FALSE ELSE isDrawing
        /\ previewPoint' = IF Len(st.guidePoints) = 0 THEN NullRecord ELSE previewPoint
        /\ Step
        /\ UNCHANGED <<pc, genVars, fitVars, cutVars, edgeVars, restVars, freeGlassWidth, activeMode>>

ClearGuide ==
    /\ guidePoints' = <<>>
    /\ isDrawing' = FALSE
    /\ previewPoint' = NullRecord
    /\ edgeConfigs' = <<>>
    /\ selectedSegmentIndex' = NullIndex
    /\ Step
    /\ UNCHANGED <<pc, genVars, fitVars, cutVars, edgeVars, restVars, freeGlassWidth, activeMode>>

ToggleFreeGlassWidth ==
    \E st \in {IF Len(guidePoints) - 1 < 1
                THEN StorePart(guidePoints, edgeConfigs, selectedSegmentIndex)
                ELSE RegenerateFrom(
                        StorePart(guidePoints,
                            syncEdgeConfigs(guidePoints, edgeConfigs, selectedSegmentIndex,
                                            ~freeGlassWidth).edgeConfigs,
                            syncEdgeConfigs(guidePoints, edgeConfigs, selectedSegmentIndex,
                                            ~freeGlassWidth).selectedSegmentIndex),
                        ~freeGlassWidth, 0, Len(guidePoints) - 1)} :
        /\ freeGlassWidth' = ~freeGlassWidth
        /\ guidePoints' = st.guidePoints
        /\ edgeConfigs' = st.edgeConfigs
        /\ selectedSegmentIndex' = st.selectedSegmentIndex
        /\ InWindow(st.guidePoints)
        /\ Step
        /\ UNCHANGED <<pc, genVars, fitVars, cutVars, edgeVars, restVars,
                       previewPoint, isDrawing, activeMode>>

SetSelectedSegmentIndex ==
    \E index \in Indices \cup {NullIndex} :
        IF index = NullIndex
        THEN Becomes(StorePart(guidePoints, edgeConfigs, index))
        ELSE \E synced \in {syncEdgeConfigs(guidePoints, edgeConfigs, index,
                                             freeGlassWidth)} :
                IF /\ index + 1 <= Len(synced.edgeConfigs)
                   /\ synced.edgeConfigs[index + 1].wallOrGlazingStatus = "glazing"
                   /\ Len(synced.edgeConfigs[index + 1].panels) = 0
                THEN Becomes(autoGeneratePanels(guidePoints, synced.edgeConfigs,
                                synced.selectedSegmentIndex, freeGlassWidth, index))
                ELSE Becomes(StorePart(guidePoints, synced.edgeConfigs,
                                       synced.selectedSegmentIndex))

SetEdgeWallOrGlazing ==
    \E index \in Indices, status \in Statuses :
        \E synced \in {SyncOn(guidePoints)} :
            Becomes([synced EXCEPT !.edgeConfigs =
                        IF index < Len(@)
                        THEN [@ EXCEPT ![index + 1] =
                                [wallOrGlazingStatus |-> status,
                                 panels |-> IF status = "wall" THEN <<>> ELSE @.panels]]
                        ELSE @])

\* addPanel(index)
AddPanelTo(index) ==
    \E synced \in {SyncOn(guidePoints)} :
        /\ index < Len(synced.edgeConfigs)
        /\ Len(synced.edgeConfigs[index + 1].panels) < MaxEdgePanels
        /\ \E pushed \in {[synced.edgeConfigs EXCEPT ![index + 1].panels =
                                Append(@, NewPanel(@))]} :
              Becomes(StorePart(resizeSegmentToFitPanels(guidePoints, pushed, index),
                                pushed, synced.selectedSegmentIndex))

AddPanel == \E index \in Indices : index >= 0 /\ AddPanelTo(index)

\* removePanel(index, panelIndex)
RemovePanelFrom(index, panelIndex) ==
    \E synced \in {SyncOn(guidePoints)} :
        /\ index < Len(synced.edgeConfigs)
        /\ \E removed \in {IF panelIndex < Len(synced.edgeConfigs[index + 1].panels)
                             THEN [synced.edgeConfigs EXCEPT ![index + 1].panels =
                                      Renamed(SpliceOut(@, panelIndex))]
                             ELSE synced.edgeConfigs} :
              Becomes(StorePart(resizeSegmentToFitPanels(guidePoints, removed, index),
                                removed, synced.selectedSegmentIndex))

RemovePanel ==
    \E index \in Indices, panelIndex \in 0..(MaxEdgePanels - 1) :
        index >= 0 /\ RemovePanelFrom(index, panelIndex)

\* updatePanelField(index, panelIndex, fv[1], fv[2])
UpdatePanelFieldOf(index, panelIndex, fv) ==
    \E synced \in {SyncOn(guidePoints)} :
        /\ index < Len(synced.edgeConfigs)
        /\ \E updated \in
                {IF panelIndex >= Len(synced.edgeConfigs[index + 1].panels)
                 THEN synced.edgeConfigs
                 ELSE IF fv[1] = "length"
                 THEN [synced.edgeConfigs EXCEPT
                          ![index + 1].panels[panelIndex + 1].length = fv[2]]
                 ELSE [synced.edgeConfigs EXCEPT
                          ![index + 1].panels[panelIndex + 1].opening = fv[2]]} :
              Becomes(StorePart(
                  IF fv[1] = "length"
                  THEN resizeSegmentToFitPanels(guidePoints, updated, index)
                  ELSE guidePoints,
                  updated, synced.selectedSegmentIndex))

UpdatePanelField ==
    \E index \in Indices, panelIndex \in 0..(MaxEdgePanels - 1), fv \in FieldValues :
        index >= 0 /\ UpdatePanelFieldOf(index, panelIndex, fv)

AutoGeneratePanels ==
    \E index \in Indices :
        /\ index >= 0
        /\ Becomes(autoGeneratePanels(guidePoints, edgeConfigs, selectedSegmentIndex,
                                      freeGlassWidth, index))

NextStore ==
    \/ AddPoint
    \/ MovePoint
    \/ RemovePoint
    \/ InsertPointOnSegment
    \/ UpdateSegmentLength
    \/ UpdateAngle
    \/ UndoLastPoint
    \/ ClearGuide
    \/ ToggleFreeGlassWidth
    \/ SetSelectedSegmentIndex
    \/ SetEdgeWallOrGlazing
    \/ AddPanel
    \/ RemovePanel
    \/ UpdatePanelField
    \/ AutoGeneratePanels

SpecStore == InitStore /\ [][NextStore]_vars

----------------------------------------------------------------------------
(* The drawing state of the store: isDrawing, previewPoint and activeMode  *)

ActiveModes == {"select", "draw-guide", "levels"}

\* setIsDrawing that leaves the preview point alone
setIsDrawingKeepPreview(preview, v) ==
    [isDrawing |-> v, previewPoint |-> preview]

\* setIsDrawing(v): the two fields after the call
setIsDrawing(preview, v) ==
    [isDrawing |-> v, previewPoint |-> IF ~v THEN NullRecord ELSE preview]

SetIsDrawing ==
    \E v \in BOOLEAN :
        /\ isDrawing' = setIsDrawing(previewPoint, v).isDrawing
        /\ previewPoint' = setIsDrawing(previewPoint, v).previewPoint
        /\ Step
        /\ UNCHANGED <<pc, genVars, fitVars, cutVars, edgeVars, restVars, guidePoints,
                       edgeConfigs, selectedSegmentIndex, freeGlassWidth, activeMode>>

\* setPreviewPoint(pt), pt a point or null
SetPreviewPoint ==
    \E pt \in PointChoices \cup {NullRecord} :
        /\ previewPoint' =
               IF isDrawing
               THEN IF pt # NullRecord
                    THEN applySnap(pt, IF Len(guidePoints) > 0
                                       THEN guidePoints[Len(guidePoints)]
                                       ELSE NullRecord)
                    ELSE NullRecord
               ELSE NullRecord
        /\ Step
        /\ UNCHANGED <<pc, genVars, fitVars, cutVars, edgeVars, restVars, guidePoints,
                       edgeConfigs, selectedSegmentIndex, freeGlassWidth, activeMode,
                       isDrawing>>

\* setActiveMode(mode)
SetActiveMode ==
    \E mode \in ActiveModes :
        /\ activeMode' = mode
        /\ isDrawing' = IF mode # "draw-guide" THEN FALSE ELSE isDrawing
        /\ previewPoint' = IF mode # "draw-guide" THEN NullRecord ELSE previewPoint
        /\ Step
        /\ UNCHANGED <<pc, genVars, fitVars, cutVars, edgeVars, restVars, guidePoints,
                       edgeConfigs, selectedSegmentIndex, freeGlassWidth>>

NextDraw ==
    \/ SetIsDrawing
    \/ SetPreviewPoint
    \/ SetActiveMode
    \/ AddPoint
    \/ UndoLastPoint
    \/ ClearGuide

SpecDraw == InitStore /\ [][NextDraw]_vars

----------------------------------------------------------------------------
(* calculateCutLengths on drawn lengths, profile offsets and angles        *)

\* every 50 mm of the edge lengths
CutTotals == {l \in EdgeLengths : l % Mm(50) = 0}

\* the profile offsets calculateOffset returns
ProfileOffsets == {calculateOffset(a, w).profileOffset : a \in Angles, w \in BOOLEAN}

\* the corner angles and a straight continuation
CutAngles == Angles \cup {180}

InitCut ==
    /\ pc = "cutInput"
    /\ edgeLength \in CutTotals
    /\ startAngle \in CutAngles
    /\ endAngle \in CutAngles
    /\ startConnectedToWall = FALSE
    /\ endConnectedToWall = FALSE
    /\ panelsBefore = <<>>
    /\ panels = <<>>
    /\ profileOffsetLeft \in ProfileOffsets
    /\ profileOffsetRight \in ProfileOffsets
    /\ cutLengths = NullRecord
    /\ FitIdle /\ StoreInit /\ EdgeIdle /\ RestIdle

CalculateCut ==
    /\ pc = "cutInput"
    /\ cutLengths' = calculateCutLengths(edgeLength, profileOffsetLeft,
                                         profileOffsetRight, startAngle, endAngle)
    /\ pc' = "cut"
    /\ UNCHANGED <<genVars, fitVars, profileOffsetLeft, profileOffsetRight,
                   storeVars, edgeVars, restVars>>

NextCut == CalculateCut

SpecCut == InitCut /\ [][NextCut]_vars

----------------------------------------------------------------------------
(* computeEdgeData on any guide of axis-parallel segments, any array of    *)
(* edge configs and any segment index                                      *)

\* corners of a square of 1000 mm
GridPoints == {[x |-> Mm(a), y |-> Mm(b)] : a \in {0, 1000}, b \in {0, 1000}}

\* guides of n points whose segments are parallel to an axis or have no length
Guides(n) ==
    {g \in [1..n -> GridPoints] :
        \A k \in 1..(n - 1) : g[k].x = g[k + 1].x \/ g[k].y = g[k + 1].y}

\* no panels, or an opening panel followed by a panel of any opening, with
\* the offsets of a list between a wall end and a 90 degree wall corner
EdgePanelLists ==
    {<<>>} \cup
    {recalcPanelOffsets(ps, 0, 90, FALSE, TRUE) :
        ps \in {qs \in PanelLists(2) :
                    qs[1].opening = ">" /\ qs[1].lock = "-" /\ qs[2].lock = "|"}}

EdgeConfigChoices ==
    {[wallOrGlazingStatus |-> st, panels |-> ps] : st \in Statuses, ps \in EdgePanelLists}

InitEdge ==
    /\ pc = "edgeInput"
    /\ guidePoints \in UNION {Guides(n) : n \in 0..MaxPoints}
    /\ edgeConfigs \in UNION {[1..n -> EdgeConfigChoices] : n \in 0..(MaxPoints - 1)}
    /\ segIndex \in -1..MaxPoints
    /\ frameHeight \in FrameHeights
    /\ fittings = <<>>
    /\ edgeData = NullRecord
    /\ previewPoint = NullRecord
    /\ isDrawing = FALSE
    /\ freeGlassWidth = TRUE
    /\ activeMode = "select"
    /\ selectedSegmentIndex = NullIndex
    /\ steps = 0
    /\ GenIdle /\ CutIdle /\ RestIdle

ComputeEdge ==
    /\ pc = "edgeInput"
    /\ edgeData' = computeEdgeData(guidePoints, edgeConfigs, segIndex, frameHeight)
    /\ pc' = "edgeComputed"
    /\ UNCHANGED <<genVars, fitVars, cutVars, storeVars, segIndex, restVars>>

NextEdge == ComputeEdge

SpecEdge == InitEdge /\ [][NextEdge]_vars

----------------------------------------------------------------------------
(* calculateOffset at the two ends of an edge                              *)

InitOffset ==
    /\ pc = "offsetInput"
    /\ startAngle \in CutAngles
    /\ endAngle \in CutAngles
    /\ startConnectedToWall \in BOOLEAN
    /\ endConnectedToWall \in BOOLEAN
    /\ edgeLength = 0
    /\ panelsBefore = <<>>
    /\ panels = <<>>
    /\ OffsetIdle /\ PointsIdle /\ PlyIdle
    /\ FitIdle /\ CutIdle /\ StoreInit /\ EdgeIdle

CalculateOffsets ==
    /\ pc = "offsetInput"
    /\ leftOffsetResult' = calculateOffset(startAngle, startConnectedToWall)
    /\ rightOffsetResult' = calculateOffset(endAngle, endConnectedToWall)
    /\ pc' = "offsetDone"
    /\ UNCHANGED <<genVars, fitVars, cutVars, storeVars, edgeVars, pointVars, plyVars>>

NextOffset == CalculateOffsets

SpecOffset == InitOffset /\ [][NextOffset]_vars

----------------------------------------------------------------------------
(* calculateOffsetPoints on any polyline of axis-parallel segments         *)

\* points of a grid of 100 mm, three columns and two rows
PolylinePoints == {[x |-> a, y |-> b] : a \in {0, 100, 200}, b \in {0, 100}}

\* polylines of n points whose segments are parallel to an axis or have no
\* length
Polylines(n) ==
    {g \in [1..n -> PolylinePoints] :
        \A k \in 1..(n - 1) : g[k].x = g[k + 1].x \/ g[k].y = g[k + 1].y}

\* the distance the store passes, and the same distance to the other side
OffsetDistances == {GUIDE_OFFSET_DISTANCE, -GUIDE_OFFSET_DISTANCE}

InitPoints ==
    /\ pc = "pointsInput"
    /\ points \in UNION {Polylines(n) : n \in 0..MaxPoints}
    /\ offsetDistance \in OffsetDistances
    /\ offsetPoints = <<>>
    /\ OffsetIdle /\ PlyIdle
    /\ GenIdle /\ FitIdle /\ CutIdle /\ StoreInit /\ EdgeIdle

CalculateOffsetPoints ==
    /\ pc = "pointsInput"
    /\ offsetPoints' = calculateOffsetPoints(points, offsetDistance,
                                             GUIDE_START_INSET, GUIDE_END_INSET)
    /\ pc' = "pointsDone"
    /\ UNCHANGED <<genVars, fitVars, cutVars, storeVars, edgeVars, offsetVars,
                   plyVars, points, offsetDistance>>

NextPoints == CalculateOffsetPoints

SpecPoints == InitPoints /\ [][NextPoints]_vars

----------------------------------------------------------------------------
(* The PLY cache used by several viewers                                   *)

PlyFiles == {"scan.ply", "other.ply"}

\* the 2D and the 3D point cloud viewer
Viewers == {"2d", "3d"}

\* at most MaxLoads loaders are started in a behaviour
MaxLoads == 3

InitPly ==
    /\ pc = "ply"
    /\ cache = [f \in PlyFiles |-> NullRecord]
    /\ loading = [f \in PlyFiles |-> NullIndex]
    /\ promises = <<>>
    /\ loaderStarts = [f \in PlyFiles |-> 0]
    /\ returned = [v \in Viewers |-> NullRecord]
    /\ lastCall = NullRecord
    /\ OffsetIdle /\ PointsIdle
    /\ GenIdle /\ FitIdle /\ CutIdle /\ StoreInit /\ EdgeIdle

\* the cache moves to the state st
PlyBecomes(st) ==
    /\ cache' = st.cache
    /\ loading' = st.loading
    /\ promises' = st.promises
    /\ loaderStarts' = st.loaderStarts
    /\ UNCHANGED <<pc, genVars, fitVars, cutVars, storeVars, edgeVars,
                   offsetVars, pointVars>>

\* a viewer calls loadPly(file)
LoadPly ==
    \E v \in Viewers, file \in PlyFiles :
        /\ pc = "ply"
        /\ \E r \in {loadPly(PlyState(cache, loading, promises, loaderStarts), file)} :
              /\ Len(r.state.promises) <= MaxLoads
              /\ PlyBecomes(r.state)
              /\ returned' = [returned EXCEPT ![v] = r.result]
              /\ lastCall' = [viewer |-> v, file |-> file]

\* the loader of a pending promise succeeds
LoaderSucceeds ==
    \E id \in 1..Len(promises) :
        /\ promises[id].status = "pending"
        /\ PlyBecomes(onLoad(PlyState(cache, loading, promises, loaderStarts), id))
        /\ UNCHANGED <<returned, lastCall>>

\* the loader of a pending promise fails
LoaderFails ==
    \E id \in 1..Len(promises) :
        /\ promises[id].status = "pending"
        /\ PlyBecomes(onError(PlyState(cache, loading, promises, loaderStarts), id))
        /\ UNCHANGED <<returned, lastCall>>

NextPly == LoadPly \/ LoaderSucceeds \/ LoaderFails

SpecPly == InitPly /\ [][NextPly]_vars

----------------------------------------------------------------------------
(* Quantities the properties below are stated in                           *)

Generated == pc = "generated"

LeftOffset == calculateOffset(startAngle, startConnectedToWall).offset

RightOffset == calculateOffset(endAngle, endConnectedToWall).offset

\* available = edgeLength - leftOffset - rightOffset
Available == edgeLength - LeftOffset - RightOffset

\* ceil(available / 700)
CeilCount == Ceil(Available, Mm(700))

\* available - 4 * (numPanels - 1), the numerator of avg
GlassLength == Available - Mm(4) * (CeilCount - 1)

\* the standard ladder {430, 460, ..., 700}
Ladder == {Mm(430 + 30 * k) : k \in 0..9}

RECURSIVE SumLengths(_)
SumLengths(ps) == IF ps = <<>> THEN 0 ELSE Head(ps).length + SumLengths(Tail(ps))

RECURSIVE Footprint(_)
Footprint(ps) ==
    IF ps = <<>> THEN 0
    ELSE Head(ps).length + Head(ps).offsetLeft + Head(ps).offsetRight
         + Footprint(Tail(ps))

StraightEdge3000 ==
    /\ edgeLength = Mm(3000)
    /\ startAngle = 0 /\ endAngle = 0
    /\ ~startConnectedToWall /\ ~endConnectedToWall

----------------------------------------------------------------------------
C2_FreeWidthExact ==
    (Generated /\ Available >= Mm(50) /\ CeilCount >= 2
               /\ GlassLength < Mm(400) * CeilCount) =>
        /\ Len(panels) = CeilCount
        /\ \A i \in 1..Len(panels) : panels[i].length = RoundMm(GlassLength, CeilCount)

ClaimBaseSize(num, den) ==
    IF \E s \in Ladder : s * den >= num
    THEN CHOOSE s \in Ladder :
            /\ s * den >= num
            /\ \A t \in Ladder : t * den >= num => s <= t
    ELSE Mm(700)

ClaimScore(nLarge, n, base, smaller, glass) ==
    nLarge * base + (n - nLarge) * smaller - glass

StandardSearch ==
    /\ Generated /\ Available >= Mm(50) /\ CeilCount >= 2
    /\ GlassLength >= Mm(400) * CeilCount

C5_PanelCount ==
    (Generated /\ Available >= Mm(50)) => Len(panels) = CeilCount

\* available is exactly 1400 mm: two panels, not three
C5_Witness ==
    /\ Generated /\ Available = Mm(1400) /\ Len(panels) = 2

(* C6: with available < 50 (also negative) the result is one panel of      *)
(* length max(100, round(available)), opening '>', lock '-', and the       *)
(* corner offsets rounded to 0.1 mm.                                       *)
C6_TooShort ==
    (Generated /\ Available < Mm(50)) =>
        /\ Len(panels) = 1
        /\ panels[1].length = Max(Mm(100), RoundMm(Available, 1))
        /\ panels[1].opening = ">"
        /\ panels[1].lock = "-"
        /\ panels[1].offsetLeft = RoundTenth(LeftOffset)
        /\ panels[1].offsetRight = RoundTenth(RightOffset)

\* a short edge between two corners whose offsets 72.89 and -52.11 are rounded
C6_Witness ==
    /\ Generated /\ Available < Mm(50) /\ Available > 0
    /\ Len(panels) = 1
    /\ panels[1].offsetLeft # LeftOffset
    /\ panels[1].offsetRight # RightOffset
    /\ panels[1].offsetRight < 0

SinglePanelCase == Generated /\ Available >= Mm(50) /\ Available <= Mm(700)

LocksLastOnly(ps) ==
    \A i \in 1..Len(ps) :
        /\ ps[i].opening = ">"
        /\ ps[i].lock = IF i = Len(ps) THEN "|" ELSE "-"

(* C8 as stated: with available >= 50 every panel opens '>', the last      *)
(* panel has lock '|' and every other panel '-', for every panel count.    *)
C8_LastLocked ==
    (Generated /\ Available >= Mm(50)) => LocksLastOnly(panels)

(* C8 amended: with available > 700 (two or more panels) every panel opens *)
(* '>', the last panel has lock '|' and every other panel '-'; a single    *)
(* panel result (50 <= available <= 700) opens '>' and keeps lock '-'.     *)
C8_LastLockedMulti ==
    /\ (Generated /\ Available > Mm(700)) =>
          Len(panels) >= 2 /\ LocksLastOnly(panels)
    /\ SinglePanelCase =>
          Len(panels) = 1 /\ panels[1].opening = ">" /\ panels[1].lock = "-"

C8_Witness ==
    /\ Generated /\ Available > Mm(700)
    /\ Len(panels) = 3
    /\ panels[1].lock = "-" /\ panels[2].lock = "-" /\ panels[3].lock = "|"

IsFirstLeft(ps, i) ==
    ps[i].opening = "<" /\ \A j \in 1..(i - 1) : ps[j].opening # "<"

IsLastRight(ps, i) ==
    ps[i].opening = ">" /\ \A j \in (i + 1)..Len(ps) : ps[j].opening # ">"

(* C9: autoAssignLocks never changes a '||' lock; of the other panels, the *)
(* ones that end with '|' are exactly the list's first '<' panel and its   *)
(* last '>' panel, and all the rest end with '-'.  Nothing else changes.   *)
C9_DoubleLocksKept ==
    pc = "locksAssigned" =>
        /\ Len(panels) = Len(panelsBefore)
        /\ \A i \in 1..Len(panelsBefore) :
              /\ panelsBefore[i].lock = "||" => panels[i].lock = "||"
              /\ panelsBefore[i].lock # "||" =>
                    panels[i].lock =
                        IF IsFirstLeft(panelsBefore, i) \/ IsLastRight(panelsBefore, i)
                        THEN "|" ELSE "-"
              /\ panels[i] = [panelsBefore[i] EXCEPT !.lock = panels[i].lock]

\* the first '<' panel is double-locked and stays so; a later '<' panel that
\* had '|' is reset to '-'
C9_Witness ==
    /\ pc = "locksAssigned"
    /\ \E i, j \in 1..Len(panelsBefore) :
          /\ i < j
          /\ IsFirstLeft(panelsBefore, i)
          /\ panelsBefore[i].lock = "||" /\ panels[i].lock = "||"
          /\ panelsBefore[j].opening = "<"
          /\ panelsBefore[j].lock = "|" /\ panels[j].lock = "-"

(* C10: in a list of two or more generated panels the lengths never        *)
(* decrease in panel order and at most two distinct lengths occur.         *)
C10_SmallerFirst ==
    (Generated /\ Len(panels) >= 2) =>
        /\ \A i \in 1..(Len(panels) - 1) : panels[i].length <= panels[i + 1].length
        /\ Cardinality({panels[i].length : i \in 1..Len(panels)}) <= 2

\* a mixed list: a smaller panel directly before a larger one
C10_Witness ==
    /\ Generated /\ Len(panels) >= 3
    /\ panels[1].length + Mm(30) = panels[Len(panels)].length

----------------------------------------------------------------------------
(* Fittings                                                                *)

Fitted == pc = "fitted"

\* the four corner locks of fitting f on one side
LeftLocksAre(f, lock) == f.topLeft = lock /\ f.bottomLeft = lock

RightLocksAre(f, lock) == f.topRight = lock /\ f.bottomRight = lock

\* C11: at every interior boundary between panels i and i+1, when at least
\* one of the two is fixed ('X') the right locks of i and the left locks of
\* i+1 are all 'Variabelt andlock', whatever the corner angles; when neither
\* is fixed they are 'Moteslock hane' on i and 'Moteslock hona' on i+1.
C11_FixedGlassBoundary ==
    Fitted =>
        \A i \in 1..(Len(panels) - 1) :
            IF panels[i].opening = "X" \/ panels[i + 1].opening = "X"
            THEN /\ RightLocksAre(fittings[i], "Variabelt andlock")
                 /\ LeftLocksAre(fittings[i + 1], "Variabelt andlock")
            ELSE /\ RightLocksAre(fittings[i], "Moteslock hane")
                 /\ LeftLocksAre(fittings[i + 1], "Moteslock hona")

\* a fixed panel followed by an opening one, and two opening neighbours
C11_Witness ==
    /\ Fitted
    /\ Len(panels) = 3
    /\ panels[1].opening = "X" /\ panels[2].opening = ">" /\ panels[3].opening = "<"
    /\ RightLocksAre(fittings[1], "Variabelt andlock")
    /\ LeftLocksAre(fittings[2], "Variabelt andlock")
    /\ RightLocksAre(fittings[2], "Moteslock hane")
    /\ LeftLocksAre(fittings[3], "Moteslock hona")

\* the hardware a lock symbol stands for
SymbolHardware(lock) ==
    IF lock = "||" THEN [topLock |-> "Overlas dubbel", bottomLock |-> "Vridlas"]
    ELSE IF lock = "|" THEN [topLock |-> "Overlas", bottomLock |-> "Vridlas"]
    ELSE [topLock |-> Null, bottomLock |-> Null]

OnlyOne(i, o) ==
    /\ panels[i].opening = o
    /\ \A j \in 1..Len(panels) : panels[j].opening = o => j = i

\* C12: a panel's topLock is 'D-Vanster' exactly when it opens '<' and is the
\* only '<' panel of the list, 'D-Hoger' exactly when it opens '>' and is the
\* only '>' panel, whatever its lock symbol; every other panel has the
\* hardware of its lock symbol ('||': 'Overlas dubbel' and 'Vridlas', '|':
\* 'Overlas' and 'Vridlas', '-': none).
C12_DirectionLocks ==
    Fitted =>
        \A i \in 1..Len(panels) :
            /\ fittings[i].topLock = "D-Vanster" <=> OnlyOne(i, "<")
            /\ fittings[i].topLock = "D-Hoger" <=> OnlyOne(i, ">")
            /\ (~OnlyOne(i, "<") /\ ~OnlyOne(i, ">")) =>
                   /\ fittings[i].topLock = SymbolHardware(panels[i].lock).topLock
                   /\ fittings[i].bottomLock = SymbolHardware(panels[i].lock).bottomLock

\* one '<' panel with a double lock between two '>' panels
C12_Witness ==
    /\ Fitted
    /\ Len(panels) = 3
    /\ panels[1].opening = ">" /\ panels[1].lock = "|"
    /\ panels[2].opening = "<" /\ panels[2].lock = "||"
    /\ panels[3].opening = ">" /\ panels[3].lock = "-"
    /\ fittings[1].topLock = "Overlas"
    /\ fittings[2].topLock = "D-Vanster"
    /\ fittings[3].topLock = Null

\* the lock of a list end at a corner of the given angle
EdgeLock(angle, gender) ==
    IF angle = 0 THEN IF gender = "hona" THEN "Slutlock hona" ELSE "Slutlock hane"
    ELSE IF 86 < Abs(angle) /\ Abs(angle) < 94
    THEN IF gender = "hona" THEN "90 graderslock hona" ELSE "90 graderslock hane"
    ELSE "Variabelt andlock"

\* C13: the left locks of the first panel are 'Slutlock hona' at start angle
\* 0, '90 graderslock hona' when 86 < |startAngle| < 94 and 'Variabelt
\* andlock' otherwise; the right locks of the last panel follow the end angle
\* the same way with the 'hane' locks; no panel's opening changes them.
C13_EdgeEndLocks ==
    (Fitted /\ Len(panels) > 0) =>
        /\ LeftLocksAre(fittings[1], EdgeLock(startAngle, "hona"))
        /\ RightLocksAre(fittings[Len(panels)], EdgeLock(endAngle, "hane"))

\* a fixed first panel at the edge of the 90 degree window, a fixed last panel
\* inside it
C13_Witness ==
    /\ Fitted
    /\ Len(panels) = 2
    /\ panels[1].opening = "X" /\ panels[2].opening = "X"
    /\ startAngle = 86 /\ endAngle = -93
    /\ LeftLocksAre(fittings[1], "Variabelt andlock")
    /\ RightLocksAre(fittings[2], "90 graderslock hane")

----------------------------------------------------------------------------
(* Panel offsets                                                           *)

Recalculated == pc = "recalculated"

\* the offset on both sides of a boundary between panels a and b
BoundaryOffset(a, b) ==
    IF a.opening = "X" \/ b.opening = "X" THEN Mm(6) ELSE Mm(2)

\* C14: recalcPanelOffsets on a non-empty list returns a list of the same
\* length; at every interior boundary the offsetRight of panel i and the
\* offsetLeft of panel i+1 are both 6 when either panel is fixed and both 2
\* otherwise; the first offsetLeft and the last offsetRight are the corner
\* offsets rounded to 0.1 mm; name, length, opening and lock are unchanged.
C14_RecalcOffsets ==
    (Recalculated /\ Len(panelsBefore) > 0) =>
        /\ Len(panels) = Len(panelsBefore)
        /\ \A i \in 1..(Len(panels) - 1) :
              /\ panels[i].offsetRight = BoundaryOffset(panelsBefore[i], panelsBefore[i + 1])
              /\ panels[i + 1].offsetLeft = BoundaryOffset(panelsBefore[i], panelsBefore[i + 1])
        /\ panels[1].offsetLeft =
              RoundTenth(calculateOffset(startAngle, startConnectedToWall).offset)
        /\ panels[Len(panels)].offsetRight =
              RoundTenth(calculateOffset(endAngle, endConnectedToWall).offset)
        /\ \A i \in 1..Len(panels) :
              /\ panels[i].name = panelsBefore[i].name
              /\ panels[i].length = panelsBefore[i].length
              /\ panels[i].opening = panelsBefore[i].opening
              /\ panels[i].lock = panelsBefore[i].lock

\* an opening panel, a fixed one and two opening ones between a straight end
\* and a 90 degree wall corner
C14_Witness ==
    /\ Recalculated
    /\ Len(panels) = 3
    /\ panelsBefore[1].opening = "X"
    /\ panelsBefore[2].opening = ">" /\ panelsBefore[3].opening = "<"
    /\ startAngle = 0 /\ endAngle = 90 /\ endConnectedToWall
    /\ panels[1].offsetLeft = Mm(46) + 50
    /\ panels[1].offsetRight = Mm(6) /\ panels[2].offsetLeft = Mm(6)
    /\ panels[2].offsetRight = Mm(2) /\ panels[3].offsetLeft = Mm(2)
    /\ panels[3].offsetRight = Mm(91) + 50

----------------------------------------------------------------------------
(* Config store                                                            *)

\* C15: in every state of the store the number of edge configs is the number
\* of guide points minus one when there are at least two points, and 0
\* otherwise.
C15_EdgeConfigCount ==
    pc = "store" =>
        Len(edgeConfigs) = IF Len(guidePoints) >= 2 THEN Len(guidePoints) - 1 ELSE 0

\* a full guide with a wall edge and a glazing edge holding panels
C15_Witness ==
    /\ pc = "store"
    /\ Len(guidePoints) = MaxPoints
    /\ Len(edgeConfigs) = MaxPoints - 1
    /\ edgeConfigs[1].wallOrGlazingStatus = "wall"
    /\ Len(edgeConfigs[2].panels) > 0

\* C16: in every state of the store an edge config with status 'wall' has an
\* empty panel list.
C16_WallHasNoPanels ==
    pc = "store" =>
        \A k \in 1..Len(edgeConfigs) :
            edgeConfigs[k].wallOrGlazingStatus = "wall" => Len(edgeConfigs[k].panels) = 0

----------------------------------------------------------------------------
(* Cut lengths                                                             *)

CutDone == pc = "cut"

\* the miter terms of the two corners for one miter distance
MiterTerms(distance) ==
    offsetDueToMiter(distance, startAngle) + offsetDueToMiter(distance, endAngle)

\* C20: underskena = edgeLength + profileOffsetLeft + profileOffsetRight; a
\* corner of angle 0 adds no miter term to any length and adds the 54 mm wall
\* bonus to coverprofile only; with both angles 0, overskena and overhallare
\* equal underskena and coverprofile is underskena + 108; with exactly one
\* angle 0 coverprofile holds the bonus exactly once.
C20_CutLengths ==
    CutDone =>
        LET under == edgeLength + profileOffsetLeft + profileOffsetRight
            zeros == (IF startAngle = 0 THEN 1 ELSE 0) + (IF endAngle = 0 THEN 1 ELSE 0)
            other == IF startAngle = 0 THEN endAngle ELSE startAngle
        IN  /\ cutLengths.underskena = under
            /\ zeros = 2 =>
                  /\ cutLengths.overskena = under
                  /\ cutLengths.overhallare = under
                  /\ cutLengths.coverprofile = under + Mm(108)
            /\ zeros = 1 =>
                  /\ cutLengths.overskena
                        = under + offsetDueToMiter(MITER_DISTANCE_OVERSKENA, other)
                  /\ cutLengths.overhallare
                        = under + offsetDueToMiter(MITER_DISTANCE_OVERHALLARE, other)
                  /\ cutLengths.coverprofile
                        = under + offsetDueToMiter(MITER_DISTANCE_COVERPROFILE, other)
                          + Mm(54)
            /\ zeros = 0 =>
                  cutLengths.coverprofile = under + MiterTerms(MITER_DISTANCE_COVERPROFILE)

\* a 3000 mm edge from a wall end (angle 0) to a 90 degree wall corner:
\* underskena 2955, overskena 3035.5, coverprofile 2955 - 88.09 + 54
C20_Witness ==
    /\ CutDone
    /\ edgeLength = Mm(3000) /\ startAngle = 0 /\ endAngle = 90
    /\ profileOffsetLeft = 0 /\ profileOffsetRight = -Mm(45)
    /\ cutLengths.underskena = Mm(2955)
    /\ cutLengths.overskena = Mm(3035) + 50
    /\ cutLengths.coverprofile = Mm(2920) + 91

----------------------------------------------------------------------------
(* Edge data                                                               *)

EdgeComputed == pc = "edgeComputed"

SegmentInRange == segIndex >= 0 /\ segIndex < Len(guidePoints) - 1

\* edge k (from 0) exists in edgeConfigs and is a wall
IsWallEdge(k) ==
    k >= 0 /\ k < Len(edgeConfigs) /\ edgeConfigs[k + 1].wallOrGlazingStatus = "wall"

\* C17: computeEdgeData returns null exactly when segIndex < 0 or
\* segIndex >= guidePoints.length - 1, and otherwise a record whose sideNumber
\* is segIndex + 1, whatever the edgeConfigs array, also one shorter than the
\* guide requires.
C17_NullOrSideNumber ==
    EdgeComputed =>
        /\ edgeData = NullRecord <=> ~SegmentInRange
        /\ SegmentInRange => edgeData.sideNumber = segIndex + 1

\* the last segment of a guide that has no edge config at all
C17_Witness ==
    /\ EdgeComputed
    /\ Len(guidePoints) = 3 /\ Len(edgeConfigs) = 0 /\ segIndex = 1
    /\ edgeData # NullRecord
    /\ edgeData.sideNumber = 2

C19_PanelFittings ==
    (EdgeComputed /\ SegmentInRange) =>
        IF IsWallEdge(segIndex)
        THEN edgeData.panelFittings = <<>>
        ELSE LET ps == IF segIndex < Len(edgeConfigs)
                       THEN edgeConfigs[segIndex + 1].panels ELSE <<>>
             IN  /\ Len(edgeData.panelFittings) = Len(ps)
                 /\ \A k \in 1..Len(ps) :
                       /\ edgeData.panelFittings[k].offsetLeft = ps[k].offsetLeft
                       /\ edgeData.panelFittings[k].offsetRight = ps[k].offsetRight

\* a wall edge whose config holds two panels
C19_Witness ==
    /\ EdgeComputed
    /\ SegmentInRange
    /\ IsWallEdge(segIndex)
    /\ Len(edgeConfigs[segIndex + 1].panels) = 2
    /\ edgeData.panelFittings = <<>>

----------------------------------------------------------------------------
(* Offsets                                                                 *)

OffsetDone == pc = "offsetDone"

AngleZeroResult == [offset |-> Mm(46) + 50, profileOffset |-> 0]

\* C21: calculateOffset(0, true) and calculateOffset(0, false) are the same
\* result, offset 46.5 and profileOffset 0: at angle 0 the wall flag of the
\* end has no effect.
C21_AngleZeroIgnoresWall ==
    OffsetDone =>
        /\ startAngle = 0 => leftOffsetResult = AngleZeroResult
        /\ endAngle = 0 => rightOffsetResult = AngleZeroResult

\* an edge whose start is at angle 0 with a wall and whose end is at angle 0
\* without one
C21_Witness ==
    /\ OffsetDone
    /\ startAngle = 0 /\ startConnectedToWall
    /\ endAngle = 0 /\ ~endConnectedToWall
    /\ leftOffsetResult = rightOffsetResult
    /\ leftOffsetResult.offset = DEFAULT_OFFSET_ANGLE_ZERO

----------------------------------------------------------------------------
(* Glass width                                                             *)

\* the width the claim tabulates for a corner lock, in hundredths of a mm
TabulatedWidth(lock) ==
    CASE lock \in {"Slutlock hane", "Slutlock hona"} -> 2500
      [] lock \in {"90 graderslock hane", "90 graderslock hona"} -> 1150
      [] lock = "Variabelt andlock" -> 790
      [] lock \in {"Moteslock hane", "Moteslock hona"} -> 500

\* C22: the glassWidth of every fitting is the panel's length minus the
\* tabulated widths of its topLeft and topRight locks (25 Slutlock, 11.5
\* 90 graderslock, 7.9 Variabelt andlock, 5 Moteslock), rounded to 0.1 mm;
\* topLock, bottomLock, frameHeight and the panel's offsets play no part.
C22_GlassWidth ==
    Fitted =>
        /\ Len(fittings) = Len(panels)
        /\ \A i \in 1..Len(panels) :
              fittings[i].glassWidth
                  = RoundTenth(panels[i].length - TabulatedWidth(fittings[i].topLeft)
                               - TabulatedWidth(fittings[i].topRight))

\* a 612.34 mm panel between a wall end and a fixed panel: 612.34 - 25 - 7.9
\* rounds to 579.4
C22_Witness ==
    /\ Fitted
    /\ Len(panels) = 2 /\ startAngle = 0
    /\ panels[1].length = Mm(612) + 34 /\ panels[2].opening = "X"
    /\ fittings[1].topLeft = "Slutlock hona"
    /\ fittings[1].topRight = "Variabelt andlock"
    /\ fittings[1].topLock # Null
    /\ fittings[1].glassWidth = Mm(579) + 40

----------------------------------------------------------------------------
(* Offset points                                                           *)

PointsDone == pc = "pointsDone"

IsPoint(p) == DOMAIN p = {"x", "y"} /\ p.x \in Int /\ p.y \in Int

\* segments k and k + 1 (from 1) of the input have parallel directions, or
\* one of them has no length
ParallelAt(k) ==
    (points[k + 1].x - points[k].x) * (points[k + 2].y - points[k + 1].y)
        = (points[k + 1].y - points[k].y) * (points[k + 2].x - points[k + 1].x)

\* C23: calculateOffsetPoints returns an empty list for fewer than 2 points
\* and exactly n points for n >= 2 input points, each a point; where
\* consecutive segments are parallel or collinear the point between them is
\* the end of the first of the two offset segments, and a first or last
\* segment of zero length gives its own offset end point.
C23_OffsetPointCount ==
    PointsDone =>
        /\ Len(points) < 2 => offsetPoints = <<>>
        /\ Len(points) >= 2 =>
              /\ Len(offsetPoints) = Len(points)
              /\ \A k \in 1..Len(offsetPoints) : IsPoint(offsetPoints[k])
              /\ \A k \in 1..(Len(points) - 2) :
                    ParallelAt(k) =>
                        offsetPoints[k + 1] = OffsetSegment(points, k, offsetDistance).end
              /\ points[1] = points[2] => offsetPoints[1] = points[1]
              /\ points[Len(points)] = points[Len(points) - 1]
                    => offsetPoints[Len(points)] = points[Len(points)]

\* a polyline that runs 100 mm along x and straight back: the point between
\* the two segments is the end of the first offset segment
C23_Witness ==
    /\ PointsDone
    /\ points = <<[x |-> 0, y |-> 0], [x |-> 100, y |-> 0], [x |-> 0, y |-> 0]>>
    /\ offsetDistance = GUIDE_OFFSET_DISTANCE
    /\ offsetPoints = <<[x |-> 20, y |-> -10], [x |-> 100, y |-> -10], [x |-> 20, y |-> 10]>>

----------------------------------------------------------------------------
(* PLY cache                                                               *)

\* a step is a call of loadPly(file) by viewer v (a call that repeats the
\* last one with the same result changes nothing)
IsLoadCall(v, file) ==
    /\ lastCall' = [viewer |-> v, file |-> file]
    /\ returned' # returned \/ lastCall' # lastCall

\* some load of the file has failed
HasFailed(prs, file) ==
    \E id \in 1..Len(prs) : prs[id].file = file /\ prs[id].status = "rejected"

\* a step in which the loader of promise id calls back
Completes(id) ==
    /\ id <= Len(promises)
    /\ promises[id].status = "pending"
    /\ promises'[id].status # "pending"

\* C24: while no load of a file has failed the loader is started at most
\* once for it; a call of loadPly made while the load is in flight returns
\* the pending promise of that load and starts nothing, and a call made after
\* success returns the cached entry and starts nothing.
C24_LoadedOnce ==
    [][/\ \A file \in PlyFiles :
             ~HasFailed(promises', file) => loaderStarts'[file] <= 1
       /\ \A v \in Viewers, file \in PlyFiles :
             (IsLoadCall(v, file) /\ pc = "ply") =>
                 /\ isPlyLoading(loading, file) =>
                       /\ returned'[v] = PromiseAt(loading[file])
                       /\ promises[loading[file]].status = "pending"
                       /\ promises[loading[file]].file = file
                       /\ loaderStarts' = loaderStarts
                       /\ promises' = promises
                 /\ getPlyGeometry(cache, file) # NullRecord =>
                       /\ returned'[v] = ResolvedWith(CacheEntry(file))
                       /\ loaderStarts' = loaderStarts
                       /\ promises' = promises
      ]_vars

\* both viewers hold the one pending promise of the same file
C24_Witness ==
    /\ pc = "ply"
    /\ returned["2d"] = PromiseAt(1) /\ returned["3d"] = PromiseAt(1)
    /\ Len(promises) = 1 /\ promises[1].status = "pending"
    /\ loaderStarts[promises[1].file] = 1

\* C30: when the loader of a file calls back, isPlyLoading(file) is false
\* afterwards; after a success getPlyGeometry(file) returns the entry; after
\* a failure the file is neither cached nor loading, and the next
\* loadPly(file) starts a new loader and returns its pending promise, never
\* the rejected one.
C30_Completion ==
    [][/\ \A id \in 1..Len(promises) :
             Completes(id) =>
                 LET file == promises[id].file
                 IN  /\ ~isPlyLoading(loading', file)
                     /\ promises'[id].status = "resolved"
                           => getPlyGeometry(cache', file) = CacheEntry(file)
                     /\ promises'[id].status = "rejected"
                           => getPlyGeometry(cache', file) = NullRecord
       /\ \A v \in Viewers, file \in PlyFiles :
             (IsLoadCall(v, file) /\ pc = "ply" /\ HasFailed(promises, file)
                /\ ~isPlyLoading(loading, file)
                /\ getPlyGeometry(cache, file) = NullRecord) =>
                 /\ loaderStarts'[file] = loaderStarts[file] + 1
                 /\ returned'[v] = PromiseAt(Len(promises) + 1)
                 /\ promises'[returned'[v].id].status = "pending"
       /\ \A v \in Viewers :
             (returned'[v] # returned[v] /\ returned'[v].kind = "promise")
                 => promises'[returned'[v].id].status = "pending"
      ]_vars

\* a file whose first load failed and whose second load is in flight
C30_Witness ==
    /\ pc = "ply"
    /\ Len(promises) = 2
    /\ promises[1].status = "rejected" /\ promises[2].status = "pending"
    /\ promises[1].file = promises[2].file
    /\ loaderStarts[promises[1].file] = 2
    /\ returned["3d"] = PromiseAt(2)
    /\ isPlyLoading(loading, promises[2].file)

----------------------------------------------------------------------------
(* Edge configs and guide points                                           *)

\* the step removes guide point k (from 0) of a guide of more than 2 points
RemovesPoint(k) ==
    /\ pc = "store"
    /\ Len(guidePoints) > 2
    /\ k < Len(guidePoints)
    /\ Len(guidePoints') = Len(guidePoints) - 1
    /\ guidePoints' = SpliceOut(guidePoints, k)

\* C25: after removePoint(k) on a guide of more than 2 points, every edge
\* that was not incident to point k has its own config afterwards: the edges
\* before point k keep their index, the edges after it move down by one, and
\* status and panel list go with them.
C25_ConfigsFollowEdges ==
    [][\A k \in Indices :
          RemovesPoint(k) =>
              \A j \in 0..(Len(guidePoints) - 2) :
                  /\ j + 1 < k => edgeConfigs'[j + 1] = edgeConfigs[j + 1]
                  /\ j > k => edgeConfigs'[j] = edgeConfigs[j + 1]
      ]_vars

----------------------------------------------------------------------------
(* The standard-size search always finds a split                           *)

\* the split the loop of step 10 ends with
SearchResult ==
    BestCombo(CeilCount, BaseSize(GlassLength, CeilCount),
              SmallerSize(BaseSize(GlassLength, CeilCount)), GlassLength)

\* the score of the returned list
ReturnedScore == SumLengths(panels) - GlassLength

----------------------------------------------------------------------------
(* Resizing an edge to its panels                                          *)

\* the step is addPanel, removePanel or updatePanelField on 'length' for
\* edge i
PanelStepOn(i) ==
    \/ AddPanelTo(i)
    \/ \E panelIndex \in 0..(MaxEdgePanels - 1) : RemovePanelFrom(i, panelIndex)
    \/ \E panelIndex \in 0..(MaxEdgePanels - 1), fv \in FieldValues :
          fv[1] = "length" /\ UpdatePanelFieldOf(i, panelIndex, fv)

\* the edge is left with a panel, a positive footprint, and had a length
ResizeApplies(i) ==
    /\ i < Len(guidePoints) - 1
    /\ i < Len(edgeConfigs')
    /\ Len(edgeConfigs'[i + 1].panels) >= 1
    /\ TotalModule(edgeConfigs'[i + 1].panels) > 0
    /\ SegmentLength(guidePoints, i) # 0

\* the edge is as long as its panels, and only guide point i + 1 has moved
ResizedToPanels(i) ==
    /\ Len(guidePoints') = Len(guidePoints)
    /\ SegmentLength(guidePoints', i) = TotalModule(edgeConfigs'[i + 1].panels)
    /\ \A k \in 1..Len(guidePoints) : k # i + 2 => guidePoints'[k] = guidePoints[k]

\* C28 as stated: after addPanel, removePanel or updatePanelField on
\* 'length' for edge i that leaves the edge with a panel, a positive footprint
\* and a non-zero length before, the distance between guide points i and
\* i + 1 is the sum of length + offsetLeft + offsetRight over the edge's
\* panels, only guide point i + 1 has moved, and the panel lists of all
\* other edges are unchanged.
C28_OtherEdgesUnchanged ==
    [][\A i \in Indices :
          (PanelStepOn(i) /\ ResizeApplies(i)) =>
              /\ ResizedToPanels(i)
              /\ \A e \in 1..Len(edgeConfigs') :
                    e # i + 1 =>
                        /\ e <= Len(edgeConfigs)
                        /\ edgeConfigs'[e].panels = edgeConfigs[e].panels
      ]_vars

\* syncEdgeConfigs gives the edge panels: it is a glazing edge without panels
\* and at least 50 mm long
LacksPanels(e) ==
    /\ edgeConfigs[e].wallOrGlazingStatus = "glazing"
    /\ edgeConfigs[e].panels = <<>>
    /\ SegmentLength(guidePoints, e - 1) >= Mm(50)

\* C28 amended: under the same conditions the distance between guide points
\* i and i + 1 is the sum of length + offsetLeft + offsetRight over the
\* edge's panels and only guide point i + 1 has moved; every other edge that
\* had panels, is a wall or is shorter than 50 mm keeps its panel list, and
\* every other glazing edge of 50 mm or more without panels has received the
\* panels that syncEdgeConfigs generates for it.
C28_ResizeFrame ==
    [][\A i \in Indices :
          (PanelStepOn(i) /\ ResizeApplies(i)) =>
              /\ ResizedToPanels(i)
              /\ Len(edgeConfigs') = Len(edgeConfigs)
              /\ \A e \in 1..Len(edgeConfigs) :
                    e # i + 1 =>
                        IF LacksPanels(e)
                        THEN /\ edgeConfigs'[e].panels =
                                   SyncOn(guidePoints).edgeConfigs[e].panels
                             /\ edgeConfigs'[e].panels # <<>>
                        ELSE edgeConfigs'[e].panels = edgeConfigs[e].panels
      ]_vars

\* removePanel(0, 0) has halved the first edge of a guide drawn to 1000 mm,
\* its one panel fills it, and the second edge has been given panels
C28_Witness ==
    /\ pc = "store"
    /\ Len(guidePoints) = 3
    /\ guidePoints[1].x = 0
    /\ guidePoints[2].x = Mm(500)
    /\ guidePoints[3].x = Mm(1000)
    /\ Len(edgeConfigs[1].panels) = 1
    /\ SegmentLength(guidePoints, 0) = TotalModule(edgeConfigs[1].panels)
    /\ edgeConfigs[2].wallOrGlazingStatus = "glazing"
    /\ edgeConfigs[2].panels # <<>>

----------------------------------------------------------------------------
(* The preview point                                                       *)

\* C29: in every state reached by setIsDrawing, setPreviewPoint,
\* setActiveMode, addPoint, undoLastPoint and clearGuide, previewPoint is
\* non-null only while isDrawing is true.
C29_PreviewOnlyWhileDrawing ==
    previewPoint # NullRecord => isDrawing

\* a preview point is shown while drawing from a first guide point
C29_Witness ==
    /\ pc = "store"
    /\ isDrawing
    /\ previewPoint # NullRecord
    /\ Len(guidePoints) >= 1

====
